---------------------------- MODULE Spec2Model ----------------------------
(***************************************************************************)
(* A model of treemendous' tree engine (src/src/tree.py): the Node graph   *)
(* with its parent back-references, the Tree (document) edit operations,   *)
(* the module-level pasteboard and the nested-record form of a subtree.    *)
(*                                                                         *)
(* Node objects are heap cells 1..MaxNodes; a reference is a cell number    *)
(* and NoNode stands for Python's None reference.  An optional text is a   *)
(* string, None standing for Python's None.                                *)
(*                                                                         *)
(* Ten specifications share the variables:                                 *)
(*   SpecNode   the Node methods called directly on a pool of nodes        *)
(*   Spec       one Tree driven through its public methods                 *)
(*   SpecRecord Node.from_dict / Node.to_dict on bounded records           *)
(*   SpecShared two Trees, opened from files, and the pasteboard           *)
(*   SpecEdit   one Tree whose texts are edited                            *)
(*   SpecFile   one Tree that is changed, annotated and saved              *)
(*   SpecLoad   one Tree that is opened from the files there are           *)
(*   SpecParser one GVParser fed token by token                            *)
(*   SpecExport the display form and the two exports of a tree             *)
(*   SpecClean  one Tree that is opened, changed in every way and saved    *)
(***************************************************************************)
EXTENDS Integers, Sequences, FiniteSets, TLC

\* Bound: the number of Node objects the client of SpecNode holds.
MaxNodes == 4

\* Bound: the number of Node objects constructed in one behaviour of Spec.
MaxTreeNodes == 4

\* Bound: the number of nodes of a record handed to Node.from_dict.
MaxRecNodes == 3

\* Python's None as a Node reference (Node.parent, Tree.root, Tree.selection).
NoNode == 0

\* Python's None as an optional text (Node.label, Node.value).
None == "None"

\* A key a dict does not have (dict.get returns its default).
Missing == "Missing"

\* The Node objects of SpecNode and Spec.
NodeIds == 1..MaxNodes

\* The Tree objects (documents) of the process.
Docs == {1, 2}

\* The larger of two numbers.
Max(a, b) == IF a > b THEN a ELSE b

\* The heap cells: room for the nodes of each specification, a record's nodes
\* being built twice.
Cells == 1..Max(Max(MaxNodes, MaxTreeNodes), 2 * MaxRecNodes)

VARIABLES
    nodes,       \* heap: NodeIds -> [label, value, children, parent]
    used,        \* number of Node objects constructed so far
    root,        \* Tree.root, of each Tree
    selection,   \* Tree.selection, of each Tree
    dirty,       \* Tree.dirty, of each Tree
    pasteboard,  \* tree._pasteboard: a nested record, or NoRecord
    rec,         \* SpecRecord: the record handed to Node.from_dict
    built,       \* SpecRecord: <<root of from_dict(rec), root of the round trip>>
    last_path,   \* Tree.last_path, of each Tree
    manifest,    \* Tree.manifest, of each Tree
    disk,        \* the files: what is stored under each path
    parser,      \* the GVParser: valid, _tag_stack, _math_stack, tex and data
    fed,         \* the tokens the parser handled since its last reset
    phase,       \* "open" while it is fed, "closed" after close(), "raised"
    shown,       \* the last rendering: the method called, its outcome and result
    last         \* the last call: its name, arguments and outcome

vars == <<nodes, used, root, selection, dirty, pasteboard, rec, built,
          last_path, manifest, disk, parser, fed, phase, shown, last>>

treeVars == <<root, selection, dirty, pasteboard>>
recVars == <<rec, built>>
fileVars == <<last_path, manifest, disk>>
gvVars == <<parser, fed, phase>>

\* Nothing was rendered yet.
NotShown == [op |-> "none", err |-> "ok", out |-> <<>>]

\* _pasteboard = None
NoRecord == [none |-> TRUE]

-----------------------------------------------------------------------------
(* Python list primitives, on sequences (index 0 of Python is index 1 here) *)

\* list.index(x): the 1-based position of the first x, 0 when list.index raises
\* ValueError.
Index(s, x) ==
    IF \E k \in 1..Len(s) : s[k] = x
    THEN CHOOSE k \in 1..Len(s) : s[k] = x /\ \A j \in 1..(k - 1) : s[j] # x
    ELSE 0

\* del s[k] / s.pop(k), k 1-based and in range.
RemoveAt(s, k) == SubSeq(s, 1, k - 1) \o SubSeq(s, k + 1, Len(s))

\* list.insert, faulty variant: a position past the end wraps to the front.
PyInsert_wraps(s, i, x) ==
    LET j == IF i < 0 THEN i + Len(s) ELSE i
        p == IF j < 0 THEN 0 ELSE IF j > Len(s) THEN 0 ELSE j
    IN  SubSeq(s, 1, p) \o <<x>> \o SubSeq(s, p + 1, Len(s))

\* list.insert(i, x) with Python's 0-based i: a negative i counts from the end,
\* and the position is clamped to 0..len(s).
PyInsert(s, i, x) ==
    LET j == IF i < 0 THEN i + Len(s) ELSE i
        p == IF j < 0 THEN 0 ELSE IF j > Len(s) THEN Len(s) ELSE j
    IN  SubSeq(s, 1, p) \o <<x>> \o SubSeq(s, p + 1, Len(s))

-----------------------------------------------------------------------------
(* Node *)

\* Node.__init__
NewNode(l, v) == [label |-> l, value |-> v, children |-> <<>>, parent |-> NoNode]

\* A call's outcome: the exception raised ("ok" when none) and the heap as the
\* call left it.
Outcome(e, h) == [err |-> e, h |-> h]

\* Node.add_child, faulty variant: the parent back-reference of the child is not checked.
add_child_unchecked(h, self, c) ==
    Outcome("ok", [h EXCEPT ![self].children = Append(@, c), ![c].parent = self])

\* Node.add_child(self, c)
add_child(h, self, c) ==
    IF h[c].parent # NoNode
    THEN Outcome("AssertionError", h)
    ELSE Outcome("ok", [h EXCEPT ![self].children = Append(@, c), ![c].parent = self])

\* Node.delete, faulty variant: the node found is not the one removed (the first child is).
delete_first(h, self) ==
    IF h[self].parent = NoNode
    THEN Outcome("AssertionError", h)
    ELSE LET p == h[self].parent
         IN  IF Index(h[p].children, self) = 0
             THEN Outcome("ValueError", h)
             ELSE Outcome("ok", [h EXCEPT ![p].children = Tail(@)])

\* Node.delete(self): self.parent.children.remove(self); self.parent is left as
\* it was.
delete(h, self) ==
    IF h[self].parent = NoNode
    THEN Outcome("AssertionError", h)
    ELSE LET p == h[self].parent
             i == Index(h[p].children, self)
         IN  IF i = 0
             THEN Outcome("ValueError", h)
             ELSE Outcome("ok", [h EXCEPT ![p].children = RemoveAt(@, i)])

\* Node.add_parent, faulty variant: the new parent is appended to the siblings instead of
\* taking the position of self.
add_parent_appending(h, self, node) ==
    IF h[self].parent = NoNode \/ h[node].parent # NoNode
    THEN Outcome("AssertionError", h)
    ELSE LET p == h[self].parent
             i == Index(h[p].children, self)
         IN  IF i = 0
             THEN Outcome("ValueError", h)
             ELSE LET h1 == [h EXCEPT ![node].parent = p]
                      h2 == [h1 EXCEPT ![p].children = Append(RemoveAt(@, i), node)]
                      h3 == [h2 EXCEPT ![self].parent = NoNode]
                  IN  add_child(h3, node, self)

\* Node.add_parent, faulty variant: the children the new parent already has are dropped.
add_parent_sole(h, self, node) ==
    IF h[self].parent = NoNode \/ h[node].parent # NoNode
    THEN Outcome("AssertionError", h)
    ELSE LET p == h[self].parent
             i == Index(h[p].children, self)
         IN  IF i = 0
             THEN Outcome("ValueError", h)
             ELSE LET h1 == [h EXCEPT ![node].parent = p]
                      h2 == [h1 EXCEPT ![p].children =
                                PyInsert(RemoveAt(@, i), i - 1, node)]
                      h3 == [h2 EXCEPT ![self].parent = NoNode,
                                       ![node].children = <<>>]
                  IN  add_child(h3, node, self)

\* Node.add_parent(self, node): node takes the place of self among the children
\* of self.parent, then self is appended to node.children.
add_parent(h, self, node) ==
    IF h[self].parent = NoNode \/ h[node].parent # NoNode
    THEN Outcome("AssertionError", h)
    ELSE LET p == h[self].parent
             i == Index(h[p].children, self)
         IN  IF i = 0
             THEN Outcome("ValueError", h)
             ELSE LET h1 == [h EXCEPT ![node].parent = p]
                      h2 == [h1 EXCEPT ![p].children =
                                PyInsert(RemoveAt(@, i), i - 1, node)]
                      h3 == [h2 EXCEPT ![self].parent = NoNode]
                  IN  add_child(h3, node, self)

-----------------------------------------------------------------------------
(* Shape of the node graph *)

Range(s) == {s[k] : k \in 1..Len(s)}

\* The nodes reachable from the nodes of S through children, S included (a least
\* fixpoint, so it is defined on cyclic graphs too).
RECURSIVE Grow(_, _)
Grow(h, S) ==
    LET T == S \cup UNION {Range(h[n].children) : n \in S}
    IN  IF T = S THEN S ELSE Grow(h, T)

\* n and its descendants.
Subtree(h, n) == Grow(h, {n})

\* The descendants of n, n itself only if it lies on a cycle.
Descendants(h, n) == Grow(h, Range(h[n].children))

\* The number of positions at which n occurs in the children lists of the nodes of S.
Occurrences(h, S, n) ==
    LET Count(p) == Cardinality({k \in 1..Len(h[p].children) : h[p].children[k] = n})
        RECURSIVE Sum(_)
        Sum(T) == IF T = {} THEN 0
                  ELSE LET p == CHOOSE x \in T : TRUE IN Count(p) + Sum(T \ {p})
    IN  Sum(S)

\* The nodes of S form a forest: a child's parent is its container, no node is
\* listed twice, no node is its own descendant.
IsForest(h, S) ==
    /\ \A n \in S : \A k \in 1..Len(h[n].children) : h[h[n].children[k]].parent = n
    /\ \A n \in S : Occurrences(h, S, n) <= 1
    /\ \A n \in S : n \notin Descendants(h, n)

-----------------------------------------------------------------------------
(* The nested-record form of a subtree *)

\* dict.get(key, default) on a record that may lack the key.
Get(d, key, default) == IF key \in DOMAIN d THEN d[key] ELSE default

\* Node.to_dict, faulty variant: an absent label is written as the empty string.
RECURSIVE to_dict_blank(_, _)
to_dict_blank(h, n) ==
    [label |-> IF h[n].label = None THEN "" ELSE h[n].label,
     value |-> h[n].value,
     children |-> [k \in 1..Len(h[n].children) |-> to_dict_blank(h, h[n].children[k])]]

\* Node.to_dict(self)
RECURSIVE to_dict(_, _)
to_dict(h, n) ==
    [label |-> h[n].label,
     value |-> h[n].value,
     children |-> [k \in 1..Len(h[n].children) |-> to_dict(h, h[n].children[k])]]

\* The number of Node objects Node.from_dict(d) constructs.
RECURSIVE RecSize(_)
RecSize(d) ==
    LET cs == Get(d, "children", <<>>)
        RECURSIVE Sum(_)
        Sum(k) == IF k = 0 THEN 0 ELSE RecSize(cs[k]) + Sum(k - 1)
    IN  1 + Sum(Len(cs))

\* Node.from_dict(data) on the heap h with u nodes constructed: the node is
\* constructed first, then each child record is built and added in order.
\* The result is the heap, the count of constructed nodes and the new node.
RECURSIVE from_dict(_, _, _)
from_dict(h, u, data) ==
    LET res == u + 1
        cs == Get(data, "children", <<>>)
        h0 == [h EXCEPT ![res] = NewNode(Get(data, "label", None),
                                         Get(data, "value", None))]
        RECURSIVE AddFrom(_, _, _)
        AddFrom(hh, uu, k) ==
            IF k > Len(cs)
            THEN [h |-> hh, used |-> uu, node |-> res]
            ELSE LET c == from_dict(hh, uu, cs[k])
                 IN  AddFrom(add_child(c.h, res, c.node).h, c.used, k + 1)
    IN  AddFrom(h0, res, 1)

\* Two subtrees of the heap carry the same labels and values in the same order.
RECURSIVE SameTree(_, _, _)
SameTree(h, a, b) ==
    /\ h[a].label = h[b].label
    /\ h[a].value = h[b].value
    /\ Len(h[a].children) = Len(h[b].children)
    /\ \A k \in 1..Len(h[a].children) :
          SameTree(h, h[a].children[k], h[b].children[k])

\* The subtree at n is what the record d describes: a key d lacks is read as
\* absent (no label, no value, no children).
RECURSIVE Decodes(_, _, _)
Decodes(h, n, d) ==
    /\ h[n].label = (IF "label" \in DOMAIN d THEN d["label"] ELSE None)
    /\ h[n].value = (IF "value" \in DOMAIN d THEN d["value"] ELSE None)
    /\ Len(h[n].children) = (IF "children" \in DOMAIN d THEN Len(d["children"]) ELSE 0)
    /\ \A k \in 1..Len(h[n].children) : Decodes(h, h[n].children[k], d["children"][k])

-----------------------------------------------------------------------------
(* GVParser: the handlers as functions of the parser's attributes *)

\* GVParser.TEX_MAP, MATHMODE_REQUIRED and SPECIALS
TEX_MAP ==
    [b |-> "\\textbf{", i |-> "\\textit{", u |-> "\\underline{",
     sup |-> "^{", sub |-> "_{", null |-> "{\\O", bar |-> "^{\\prime"]
MATHMODE_REQUIRED == {"sup", "sub", "null", "bar"}
SPECIALS == {"null", "bar"}

\* tag.capitalize(), on the tags it is applied to
Capitalize == [null |-> "Null", bar |-> "Bar"]

\* GVParser.reset: the attributes of a parser that was fed nothing.
Fresh == [valid |-> TRUE, tag_stack |-> <<>>, math_stack |-> <<>>, tex |-> "", data |-> ""]

\* list(deque)[:-1] and deque[-1]
Front(q) == SubSeq(q, 1, Len(q) - 1)
Last(q) == q[Len(q)]

\* A handler's outcome: the exception raised ("ok" when none) and the
\* attributes as the handler left them.
Handled(e, p) == [err |-> e, p |-> p]

\* GVParser.handle_starttag(self, tag, attrs); attrs is whether there are any.
handle_starttag(p, tag, attrs) ==
    LET p1 == IF attrs THEN [p EXCEPT !.valid = FALSE] ELSE p
        p2 == IF tag \notin DOMAIN TEX_MAP
              THEN [p1 EXCEPT !.valid = FALSE, !.tex = @ \o "<" \o tag \o ">"]
              ELSE LET m == tag \in MATHMODE_REQUIRED
                   IN  [p1 EXCEPT
                          !.tag_stack = Append(@, tag),
                          !.tex = @ \o (IF m /\ p1.math_stack = <<>> THEN "$" ELSE "")
                                    \o TEX_MAP[tag],
                          !.math_stack = IF m THEN Append(@, tag) ELSE @]
    IN  Handled("ok", IF tag \in SPECIALS THEN [p2 EXCEPT !.data = @ \o Capitalize[tag]]
                      ELSE p2)

\* GVParser.handle_endtag, faulty variant: every math tag that closes ends the
\* math mode.
handle_endtag_toggles(p, tag) ==
    LET p1 == IF p.tag_stack = <<>> THEN [p EXCEPT !.valid = FALSE]
              ELSE [p EXCEPT !.valid = Last(p.tag_stack) \in DOMAIN TEX_MAP,
                             !.tag_stack = Front(@)]
        p2 == [p1 EXCEPT !.tex = @ \o (IF tag \in DOMAIN TEX_MAP THEN "}"
                                       ELSE "</" \o tag \o ">")]
    IN  IF tag \notin MATHMODE_REQUIRED THEN Handled("ok", p2)
        ELSE IF p2.math_stack = <<>> THEN Handled("IndexError", p2)
        ELSE Handled("ok", [p2 EXCEPT !.math_stack = Front(@), !.tex = @ \o "$"])

\* GVParser.handle_endtag(self, tag): the IndexError of _tag_stack.pop() is
\* caught, the one of _math_stack.pop() is not.
handle_endtag(p, tag) ==
    LET p1 == IF p.tag_stack = <<>> THEN [p EXCEPT !.valid = FALSE]
              ELSE [p EXCEPT !.valid = Last(p.tag_stack) \in DOMAIN TEX_MAP,
                             !.tag_stack = Front(@)]
        p2 == [p1 EXCEPT !.tex = @ \o (IF tag \in DOMAIN TEX_MAP THEN "}"
                                       ELSE "</" \o tag \o ">")]
    IN  IF tag \notin MATHMODE_REQUIRED THEN Handled("ok", p2)
        ELSE IF p2.math_stack = <<>> THEN Handled("IndexError", p2)
        ELSE LET p3 == [p2 EXCEPT !.math_stack = Front(@)]
             IN  Handled("ok", IF p3.math_stack = <<>> THEN [p3 EXCEPT !.tex = @ \o "$"]
                               ELSE p3)

\* GVParser.handle_data(self, data)
handle_data(p, data) == Handled("ok", [p EXCEPT !.tex = @ \o data, !.data = @ \o data])

\* GVParser.close
close(p) == IF p.tag_stack # <<>> THEN [p EXCEPT !.valid = FALSE] ELSE p

\* What HTMLParser hands to the handlers: a start tag with or without
\* attributes, an end tag, or text.
StartTag(tag, attrs) == [kind |-> "start", tag |-> tag, attrs |-> attrs, text |-> ""]
EndTag(tag) == [kind |-> "end", tag |-> tag, attrs |-> FALSE, text |-> ""]
Text(t) == [kind |-> "data", tag |-> "", attrs |-> FALSE, text |-> t]

\* HTMLParser.goahead on one token: the handler it calls.
handle(p, tok) ==
    IF tok.kind = "start" THEN handle_starttag(p, tok.tag, tok.attrs)
    ELSE IF tok.kind = "end" THEN handle_endtag(p, tok.tag)
    ELSE handle_data(p, tok.text)

\* GVParser(), before it is fed.
InitParser ==
    /\ parser = Fresh
    /\ fed = <<>>
    /\ phase = "open"

-----------------------------------------------------------------------------
(* Node: the display form and the exports *)

\* bool(text) of a label or value: None and "" are false.
Truthy(text) == text \notin {None, ""}

\* Node.__repr__, faulty variant: a value is appended unless it is None.
Node___repr___appends_empty(h, n) ==
    LET res == IF Truthy(h[n].label) THEN h[n].label ELSE "UNLABELLED"
    IN  IF h[n].value # None THEN res \o ": " \o h[n].value ELSE res

\* Node.__repr__(self)
Node___repr__(h, n) ==
    LET res == IF Truthy(h[n].label) THEN h[n].label ELSE "UNLABELLED"
    IN  IF Truthy(h[n].value) THEN res \o ": " \o h[n].value ELSE res

\* The texts that labels and values are drawn from where a tree is rendered:
\* plain ones, one that ends in a number, well-formed markup, a tag left open,
\* a tag closed that was not opened, a tag that closes itself, and a math tag
\* closed that was not opened.
ExportTexts == {"", "a", "a2", "<b>a</b>", "<b>a", "a</b>", "T<bar/>", "</sup>"}

\* text.replace("<null/>", ...).replace("<bar/>", "<sup>...</sup>") on these
\* texts; the prime that replaces <bar/> is written \u2032.
Cleaned ==
    [t \in ExportTexts |-> IF t = "T<bar/>" THEN "T<sup>\\u2032</sup>" ELSE t]

\* html.escape(text) on these texts
Escaped ==
    ("" :> "") @@ ("a" :> "a") @@ ("a2" :> "a2")
        @@ ("<b>a</b>" :> "&lt;b&gt;a&lt;/b&gt;")
        @@ ("<b>a" :> "&lt;b&gt;a")
        @@ ("a</b>" :> "a&lt;/b&gt;")
        @@ ("T<bar/>" :> "T&lt;bar/&gt;")
        @@ ("</sup>" :> "&lt;/sup&gt;")

\* The tokens HTMLParser.feed hands to the handlers for each of these texts,
\* for what replace made of them and for what html.escape made of them: a tag
\* that closes itself is a start tag and an end tag, a character reference is
\* the character it names.
Markup ==
    ("" :> <<>>)
        @@ ("a" :> <<Text("a")>>)
        @@ ("a2" :> <<Text("a2")>>)
        @@ ("<b>a</b>" :> <<StartTag("b", FALSE), Text("a"), EndTag("b")>>)
        @@ ("<b>a" :> <<StartTag("b", FALSE), Text("a")>>)
        @@ ("a</b>" :> <<Text("a"), EndTag("b")>>)
        @@ ("T<bar/>" :> <<Text("T"), StartTag("bar", FALSE), EndTag("bar")>>)
        @@ ("</sup>" :> <<EndTag("sup")>>)
        @@ ("T<sup>\\u2032</sup>" :>
                <<Text("T"), StartTag("sup", FALSE), Text("\\u2032"), EndTag("sup")>>)
        @@ ("&lt;b&gt;a&lt;/b&gt;" :> <<Text("<b>a</b>")>>)
        @@ ("&lt;b&gt;a" :> <<Text("<b>a")>>)
        @@ ("a&lt;/b&gt;" :> <<Text("a</b>")>>)
        @@ ("T&lt;bar/&gt;" :> <<Text("T<bar/>")>>)
        @@ ("&lt;/sup&gt;" :> <<Text("</sup>")>>)

\* The handlers called one token after the other, up to the one that raises;
\* r is what the handler of the token before made of the parser.
RECURSIVE goahead(_, _), goahead_after(_, _)
goahead(p, toks) ==
    IF toks = <<>> THEN Handled("ok", p)
    ELSE goahead_after(handle(p, Head(toks)), Tail(toks))
goahead_after(r, toks) == IF r.err # "ok" THEN r ELSE goahead(r.p, toks)

\* parser.feed(text): self.rawdata + data is a TypeError when text is None.
feed(p, text) ==
    IF text = None THEN Handled("TypeError", p) ELSE goahead(p, Markup[text])

\* The outcome of rendering one text: the exception, the parser as it was left
\* and the text rendered.
Rendered(e, p, text) == [err |-> e, p |-> p, text |-> text]

\* parser.tex if parser.valid else the text, where q is the parser after close
tex_if_valid(q, text) == Rendered("ok", q, IF q.valid THEN q.tex ELSE text)

\* parser.close() and the choice of the text, where r is what feed returned
closed_after(r, text) ==
    IF r.err # "ok" THEN Rendered(r.err, r.p, "") ELSE tex_if_valid(close(r.p), text)

\* _qtree: parser.reset(); parser.feed(text); parser.close(); then parser.tex
\* if parser.valid else text.
qtree_text(p, text) == closed_after(feed(Fresh, text), text)

\* A piece of the text to_qtree builds: what it is and the characters.
Piece(part, text) == [part |-> part, text |-> text]

\* "  " * level
RECURSIVE Indent(_)
Indent(level) == IF level = 0 THEN "" ELSE "  " \o Indent(level - 1)

\* The outcome of rendering nodes: the exception, the parser as it was left and
\* the pieces or statements written.
Out(e, p, out) == [err |-> e, p |-> p, out |-> out]

\* leaf, faulty variant: every childless node is a leaf, the root included.
leaf_at_any_level(h, n, level) == h[n].children = <<>>

\* leaf = not node.children and level > 0
leaf(h, n, level) == h[n].children = <<>> /\ level > 0

\* The line of a node: the indent, the bracket unless it is a leaf, the label l
\* and, if there is one, the value v after a double backslash.
qtree_line(h, n, level, l, v) ==
    <<Piece("indent", Indent(level))>>
        \o (IF leaf(h, n, level) THEN <<>> ELSE <<Piece("open", "[.")>>)
        \o <<Piece("label", l.text)>>
        \o (IF Truthy(v.text) THEN <<Piece("value", "\\\\" \o v.text)>> ELSE <<>>)
        \o <<Piece("newline", "\n")>>

\* The closing bracket of a node on a line of its own, unless it is a leaf.
qtree_end(h, n, level) ==
    IF leaf(h, n, level) THEN <<>>
    ELSE <<Piece("indent", Indent(level)), Piece("close", "]\n")>>

\* Node.to_qtree._qtree(node, parser, level), and the loop over node.children:
\* the label is rendered (l), then the value if there is one (v), then the
\* children (cs); an exception ends the call where it is raised.
RECURSIVE qtree_node(_, _, _, _), qtree_labelled(_, _, _, _),
          qtree_valued(_, _, _, _, _), qtree_children(_, _, _, _),
          qtree_rest(_, _, _, _)
qtree_finished(h, n, level, l, v, cs) ==
    IF cs.err # "ok" THEN cs
    ELSE Out("ok", cs.p, qtree_line(h, n, level, l, v) \o cs.out \o qtree_end(h, n, level))
qtree_node(h, n, p, level) == qtree_labelled(h, n, level, qtree_text(p, h[n].label))
qtree_labelled(h, n, level, l) ==
    IF l.err # "ok" THEN Out(l.err, l.p, <<>>)
    ELSE qtree_valued(h, n, level, l,
                      IF Truthy(h[n].value) THEN qtree_text(l.p, h[n].value)
                      ELSE Rendered("ok", l.p, None))
qtree_valued(h, n, level, l, v) ==
    IF v.err # "ok" THEN Out(v.err, v.p, <<>>)
    ELSE qtree_finished(h, n, level, l, v,
                        qtree_children(h, h[n].children, v.p, level + 1))
qtree_joined(c, rest) ==
    IF rest.err # "ok" THEN rest ELSE Out("ok", rest.p, c.out \o rest.out)
qtree_children(h, kids, p, level) ==
    IF kids = <<>> THEN Out("ok", p, <<>>)
    ELSE qtree_rest(h, Tail(kids), level, qtree_node(h, Head(kids), p, level))
qtree_rest(h, kids, level, c) ==
    IF c.err # "ok" THEN c
    ELSE qtree_joined(c, qtree_children(h, kids, c.p, level))

\* Node.to_qtree(self)
qtree_headed(r) ==
    IF r.err # "ok" THEN r ELSE Out("ok", r.p, <<Piece("head", "\\Tree ")>> \o r.out)
to_qtree(h, n) == qtree_headed(qtree_node(h, n, Fresh, 0))

\* _fresh_name, faulty variant: a name already used gets the number 2, whether
\* or not that makes it new.
fresh_name_numbered_once(name, names) ==
    LET base == IF name = "" THEN "node" ELSE name
        res == IF base \in names THEN base \o ToString(2) ELSE base
    IN  [name |-> res, names |-> names \cup {res}]

\* Node.to_graphviz._fresh_name(name, names): the name, or the name with the
\* first number from 2 on that makes it new; the name is added to the names.
RECURSIVE Numbered(_, _, _)
Numbered(name, num, names) ==
    LET res == name \o ToString(num)
    IN  IF res \in names THEN Numbered(name, num + 1, names) ELSE res
fresh_name(name, names) ==
    LET base == IF name = "" THEN "node" ELSE name
        res == IF base \in names THEN Numbered(base, 2, names) ELSE base
    IN  [name |-> res, names |-> names \cup {res}]

\* Node.to_graphviz._is_valid(text, parser): reset, feed, close, parser.valid;
\* r is what feed returned.
valid_after(r) == [err |-> r.err, valid |-> close(r.p).valid]
is_valid(text) == valid_after(feed(Fresh, text))

\* Node.to_graphviz._escape_if_needed(text, parser); v is what _is_valid found.
escape_unless(v, text) ==
    [err |-> v.err, text |-> IF v.valid THEN Cleaned[text] ELSE Escaped[text]]
escape_if_needed(text) == escape_unless(is_valid(text), text)

\* The label _add_node hands to graph.node, and the exception raised instead:
\* the label l over the value v, or the label l alone, in angle brackets if it
\* is valid (ok).
label_over_value(l, v) ==
    IF v.err # "ok" THEN v
    ELSE [err |-> "ok", text |-> "<" \o l.text \o "<br/>" \o v.text \o ">"]
label_alone(l, ok) ==
    IF ok.err # "ok" THEN [err |-> ok.err, text |-> ""]
    ELSE [err |-> "ok", text |-> IF ok.valid THEN "<" \o l.text \o ">" ELSE l.text]
label_of(l, value) ==
    IF l.err # "ok" THEN l
    ELSE IF Truthy(value) THEN label_over_value(l, escape_if_needed(value))
    ELSE label_alone(l, is_valid(l.text))
node_label(label, value) == label_of(escape_if_needed(label), value)

\* The statements of the graph: graph.node(id, label) and graph.edge(tail, head)
NodeStatement(id, label) == [stmt |-> "node", id |-> id, label |-> label, tail |-> ""]
EdgeStatement(tail, head) == [stmt |-> "edge", id |-> head, label |-> "", tail |-> tail]

\* What _add_node reads and writes: the exception raised, the names used and
\* the statements of the graph.
Graph(e, names, out) == [err |-> e, names |-> names, out |-> out]

\* Node.to_graphviz._add_node(node, graph, name_set, parser, parent), and the
\* loop over node.children; parent is the identifier of the parent, or None.
\* The label is fed (f), the identifier made of parser.data (id), the label
\* written (label), the node and its edge added, then the children.
RECURSIVE add_node(_, _, _, _), add_named(_, _, _, _, _),
          add_drawn(_, _, _, _, _, _), add_nodes(_, _, _, _), add_rest(_, _, _, _)
add_node(h, n, g, parent) == add_named(h, n, g, parent, feed(Fresh, h[n].label))
add_named(h, n, g, parent, f) ==
    IF f.err # "ok" THEN Graph(f.err, g.names, g.out)
    ELSE add_drawn(h, n, g, parent, fresh_name(f.p.data, g.names),
                   node_label(h[n].label, h[n].value))
add_drawn(h, n, g, parent, id, label) ==
    IF label.err # "ok" THEN Graph(label.err, id.names, g.out)
    ELSE add_nodes(h, h[n].children,
                   Graph("ok", id.names,
                         g.out \o <<NodeStatement(id.name, label.text)>>
                               \o (IF Truthy(parent)
                                   THEN <<EdgeStatement(parent, id.name)>> ELSE <<>>)),
                   id.name)
add_nodes(h, kids, g, parent) ==
    IF kids = <<>> THEN g
    ELSE add_rest(h, Tail(kids), parent, add_node(h, Head(kids), g, parent))
add_rest(h, kids, parent, c) ==
    IF c.err # "ok" THEN c ELSE add_nodes(h, kids, c, parent)

\* Node.to_graphviz(self): the graph, as the statements it holds.
to_graphviz(h, n) == add_node(h, n, Graph("ok", {}, <<>>), None)

\* The characters of a sequence of pieces, one after the other.
RECURSIVE Join(_)
Join(pieces) == IF pieces = <<>> THEN "" ELSE Head(pieces).text \o Join(Tail(pieces))

-----------------------------------------------------------------------------
(* Files: paths, manifests and containers *)

\* A path is <<stem, extension>>; NoPath is the path that was not given (None, "").
NoPath == <<"", "">>
Container == ".treemendous"

\* path.endswith(ext)
EndsWith(path, ext) == path[2] = ext

\* __version__ = "1.0.0rc3", as <<major, minor, patch>>.
CodecVersion == <<1, 0, 0>>

\* int(version.split(".")[0])
Major(version) == version[1]

\* DEFAULT_MANIFEST
DEFAULT_MANIFEST == [version |-> CodecVersion]

\* dict.update: the keys of m replace or join those of a.
Update(a, m) ==
    [key \in DOMAIN a \cup DOMAIN m |-> IF key \in DOMAIN m THEN m[key] ELSE a[key]]

\* What is stored under a path: nothing, something that is no zip archive, or an
\* archive with some of the entries manifest.json and tree.json.
Absent == [absent |-> TRUE]
NotZip == [notzip |-> TRUE]

\* An entry tree.json that json.load cannot read (it is empty).
Unparsable == [unparsable |-> TRUE]

\* The files that exist before the program runs: containers written by an
\* older, by the running, by a later minor and by a later major version, a later
\* major one without tree.json, archives lacking an entry or holding an empty
\* tree.json, and a file that is no archive.
Stored ==
    LET t == [label |-> "a", value |-> None, children |-> <<>>]
    IN  (<<"old", Container>> :> [manifest |-> [version |-> <<0, 9, 7>>], tree |-> t])
     @@ (<<"same", Container>> :> [manifest |-> [version |-> <<1, 0, 0>>], tree |-> t])
     @@ (<<"minor", Container>> :> [manifest |-> [version |-> <<1, 5, 2>>], tree |-> t])
     @@ (<<"plain", Container>> :> [manifest |-> [notes |-> "n"], tree |-> t])
     @@ (<<"new", Container>> :> [manifest |-> [version |-> <<2, 1, 3>>], tree |-> t])
     @@ (<<"newcut", Container>> :> [manifest |-> [version |-> <<3, 0, 0>>]])
     @@ (<<"bare", Container>> :> [tree |-> t])
     @@ (<<"cut", Container>> :> [manifest |-> [version |-> <<1, 0, 0>>]])
     @@ (<<"blank", Container>> :> [manifest |-> [version |-> <<1, 0, 0>>],
                                    tree |-> Unparsable])
     @@ (<<"hollow", Container>> :> [x \in {} |-> x])
     @@ (<<"junk", Container>> :> NotZip)

\* The paths the program is handed: the stored files, a path where nothing is
\* stored, and the three kinds of path tree.save tells apart.
SavePaths == {<<"a", Container>>, <<"a", ".gv">>, <<"a", ".png">>}
Paths == DOMAIN Stored \cup {<<"none", Container>>} \cup SavePaths

\* The state of every Tree() before a path is given, and the files there are.
InitFiles ==
    /\ last_path = [d \in Docs |-> NoPath]
    /\ manifest = [d \in Docs |-> DEFAULT_MANIFEST]
    /\ disk = [p \in Paths |-> IF p \in DOMAIN Stored THEN Stored[p] ELSE Absent]

-----------------------------------------------------------------------------
(* Tree: the methods as functions of the state they read and write *)

Locations == {"CHILD", "PARENT", "SIBLING"}

\* What a method of Tree d reads and writes: the heap, d's attributes, the
\* module's pasteboard and the files.
TreeState(d) ==
    [nodes |-> nodes, used |-> used, root |-> root[d], selection |-> selection[d],
     dirty |-> dirty[d], pasteboard |-> pasteboard,
     last_path |-> last_path[d], manifest |-> manifest[d], disk |-> disk]

\* A method's outcome: the exception raised ("ok" when none) and the state as the
\* method left it.
Raise(e, st) == [err |-> e, st |-> st]
Return(st) == [err |-> "ok", st |-> st]

\* The rest of Tree._add, faulty variant: the selection stays where it was.
AfterNodeCall_keeps_selection(st, r, newRoot, new) ==
    IF r.err # "ok"
    THEN Raise(r.err, [st EXCEPT !.nodes = r.h])
    ELSE Return([st EXCEPT !.nodes = r.h, !.root = newRoot, !.dirty = TRUE])

\* The rest of Tree._add after the Node method it calls: that method's exception
\* propagates; otherwise the root is newRoot, the selection is new, dirty is set.
AfterNodeCall(st, r, newRoot, new) ==
    IF r.err # "ok"
    THEN Raise(r.err, [st EXCEPT !.nodes = r.h])
    ELSE Return([st EXCEPT !.nodes = r.h, !.root = newRoot,
                           !.selection = new, !.dirty = TRUE])

\* Tree._add past its first two tests, faulty variant: Location.PARENT on the
\* root leaves the old root as the root.
PlaceAtSelection_keeps_root(st, where, new) ==
    IF where = "CHILD"
    THEN AfterNodeCall(st, add_child(st.nodes, st.selection, new), st.root, new)
    ELSE IF where = "PARENT"
    THEN IF st.selection = st.root
         THEN AfterNodeCall(st, add_child(st.nodes, new, st.root), st.root, new)
         ELSE AfterNodeCall(st, add_parent(st.nodes, st.selection, new), st.root, new)
    ELSE IF st.selection = st.root
    THEN Raise("TreemendousError", st)
    ELSE IF st.nodes[st.selection].parent = NoNode
    THEN Raise("AttributeError", st)
    ELSE AfterNodeCall(st, add_child(st.nodes, st.nodes[st.selection].parent, new),
                       st.root, new)

\* Tree._add past its first two tests: the tree is not empty and a node is
\* selected, and new is placed as where says.
PlaceAtSelection(st, where, new) ==
    IF where = "CHILD"
    THEN AfterNodeCall(st, add_child(st.nodes, st.selection, new), st.root, new)
    ELSE IF where = "PARENT"
    THEN IF st.selection = st.root
         THEN AfterNodeCall(st, add_child(st.nodes, new, st.root), new, new)
         ELSE AfterNodeCall(st, add_parent(st.nodes, st.selection, new), st.root, new)
    ELSE IF st.selection = st.root
    THEN Raise("TreemendousError", st)
    ELSE IF st.nodes[st.selection].parent = NoNode
    THEN Raise("AttributeError", st)
    ELSE AfterNodeCall(st, add_child(st.nodes, st.nodes[st.selection].parent, new),
                       st.root, new)

\* Tree._add, faulty variant: the root is tested for Location.SIBLING before the
\* tree is tested for emptiness.
Tree__add_strict(st, where, new) ==
    IF where = "SIBLING" /\ st.selection = st.root
    THEN Raise("TreemendousError", st)
    ELSE IF st.root = NoNode
    THEN Return([st EXCEPT !.root = new, !.selection = new, !.dirty = TRUE])
    ELSE IF st.selection = NoNode
    THEN Raise("SelectionError", st)
    ELSE PlaceAtSelection(st, where, new)

\* Tree._add, faulty variant: with nothing selected the root stands in for the
\* selection.
Tree__add_defaults_to_root(st, where, new) ==
    IF st.root = NoNode
    THEN Return([st EXCEPT !.root = new, !.selection = new, !.dirty = TRUE])
    ELSE IF st.selection = NoNode
    THEN PlaceAtSelection([st EXCEPT !.selection = st.root], where, new)
    ELSE PlaceAtSelection(st, where, new)

\* Tree._add(self, where, new)
Tree__add(st, where, new) ==
    IF st.root = NoNode
    THEN Return([st EXCEPT !.root = new, !.selection = new, !.dirty = TRUE])
    ELSE IF st.selection = NoNode
    THEN Raise("SelectionError", st)
    ELSE PlaceAtSelection(st, where, new)

\* The nodes a method constructed and that nothing refers to when it raises are
\* dropped with its frame: the cells after the first u are free again.
Collect(r, u) ==
    IF r.err = "ok"
    THEN r
    ELSE Raise(r.err, [r.st EXCEPT
             !.nodes = [n \in Cells |-> IF n > u THEN NewNode(None, None) ELSE r.st.nodes[n]],
             !.used = u])

\* Tree.add(self, where, label, value): "" is stored as None.
Tree_add(st, where, label, value) ==
    LET new == st.used + 1
        l == IF label = "" THEN None ELSE label
        v == IF value = "" THEN None ELSE value
        st1 == [st EXCEPT !.nodes[new] = NewNode(l, v), !.used = new]
    IN  Collect(Tree__add(st1, where, new), st.used)

\* Tree.edit, faulty variant: "" is stored as it is given.
Tree_edit_stores_empty(st, label, value) ==
    LET s == st.selection
        r1 == IF label = None THEN Return(st)
              ELSE IF s = NoNode THEN Raise("AttributeError", st)
              ELSE Return([st EXCEPT !.nodes[s].label = label, !.dirty = TRUE])
    IN  IF r1.err # "ok" \/ value = None THEN r1
        ELSE IF s = NoNode THEN Raise("AttributeError", r1.st)
        ELSE Return([r1.st EXCEPT !.nodes[s].value = value, !.dirty = TRUE])

\* Tree.edit(self, label, value): None leaves a field alone, "" clears it.
Tree_edit(st, label, value) ==
    LET s == st.selection
        r1 == IF label = None THEN Return(st)
              ELSE IF s = NoNode THEN Raise("AttributeError", st)
              ELSE Return([st EXCEPT
                      !.nodes[s].label = IF label = "" THEN None ELSE label,
                      !.dirty = TRUE])
    IN  IF r1.err # "ok" \/ value = None THEN r1
        ELSE IF s = NoNode THEN Raise("AttributeError", r1.st)
        ELSE Return([r1.st EXCEPT
                !.nodes[s].value = IF value = "" THEN None ELSE value,
                !.dirty = TRUE])

\* Tree.delete, faulty variant: the selection stays on the node that is removed.
Tree_delete_keeps_selection(st) ==
    IF st.selection = NoNode
    THEN Raise("SelectionError", st)
    ELSE LET n == st.selection
         IN  IF n = st.root
             THEN Return([st EXCEPT !.root = NoNode, !.dirty = TRUE])
             ELSE LET r == delete(st.nodes, n)
                  IN  IF r.err # "ok"
                      THEN Raise(r.err, [st EXCEPT !.nodes = r.h])
                      ELSE Return([st EXCEPT !.nodes = r.h, !.dirty = TRUE])

\* Tree.delete(self): the root is dropped, or the selection moves to the parent
\* and the node is removed from it.
Tree_delete(st) ==
    IF st.selection = NoNode
    THEN Raise("SelectionError", st)
    ELSE LET n == st.selection
         IN  IF n = st.root
             THEN Return([st EXCEPT !.root = NoNode, !.dirty = TRUE])
             ELSE LET st1 == [st EXCEPT !.selection = st.nodes[n].parent]
                      r == delete(st1.nodes, n)
                  IN  IF r.err # "ok"
                      THEN Raise(r.err, [st1 EXCEPT !.nodes = r.h])
                      ELSE Return([st1 EXCEPT !.nodes = r.h, !.dirty = TRUE])

\* Tree.copy, faulty variant: a pasteboard that holds something is not overwritten.
Tree_copy_keeps_first(st) ==
    IF st.selection = NoNode
    THEN Raise("SelectionError", st)
    ELSE IF st.pasteboard # NoRecord
    THEN Return(st)
    ELSE Return([st EXCEPT !.pasteboard = to_dict(st.nodes, st.selection)])

\* Tree.copy(self)
Tree_copy(st) ==
    IF st.selection = NoNode
    THEN Raise("SelectionError", st)
    ELSE Return([st EXCEPT !.pasteboard = to_dict(st.nodes, st.selection)])

\* Tree.paste, faulty variant: the Node objects of the previous construction are
\* filled in again and inserted, when there are enough of them.
Tree_paste_reuses(st, where) ==
    IF st.pasteboard = NoRecord
    THEN Raise("SelectionError", st)
    ELSE LET size == RecSize(st.pasteboard)
             u == IF st.used >= size THEN st.used - size ELSE st.used
             c == from_dict(st.nodes, u, st.pasteboard)
         IN  Collect(Tree__add([st EXCEPT !.nodes = c.h, !.used = Max(st.used, c.used)],
                               where, c.node),
                     st.used)

\* Tree.paste, faulty variant: the pasteboard is emptied once it was pasted.
Tree_paste_consumes(st, where) ==
    IF st.pasteboard = NoRecord
    THEN Raise("SelectionError", st)
    ELSE LET c == from_dict(st.nodes, st.used, st.pasteboard)
             r == Collect(Tree__add([st EXCEPT !.nodes = c.h, !.used = c.used],
                                    where, c.node),
                          st.used)
         IN  IF r.err = "ok"
             THEN Return([r.st EXCEPT !.pasteboard = NoRecord])
             ELSE r

\* Tree.paste(self, where)
Tree_paste(st, where) ==
    IF st.pasteboard = NoRecord
    THEN Raise("SelectionError", st)
    ELSE LET c == from_dict(st.nodes, st.used, st.pasteboard)
         IN  Collect(Tree__add([st EXCEPT !.nodes = c.h, !.used = c.used], where, c.node),
                     st.used)

\* Tree._shift, faulty variant: the root is not told apart from other nodes.
Tree__shift_moves_root(st, direction) ==
    IF st.selection = NoNode
    THEN Raise("SelectionError", st)
    ELSE LET p == st.nodes[st.selection].parent
         IN  IF p = NoNode
             THEN Raise("AttributeError", st)
             ELSE LET t == st.nodes[p].children
                      old == Index(t, st.selection)
                  IN  IF old = 0
                      THEN Raise("ValueError", st)
                      ELSE Return([st EXCEPT
                              !.nodes[p].children =
                                  PyInsert(RemoveAt(t, old), (old - 1) + direction,
                                           st.selection),
                              !.dirty = TRUE])

\* Tree._shift, faulty variant: the node popped is not inserted again.
Tree__shift_pops(st, direction) ==
    IF st.selection = NoNode
    THEN Raise("SelectionError", st)
    ELSE IF st.selection = st.root
    THEN Raise("TreemendousError", st)
    ELSE LET p == st.nodes[st.selection].parent
         IN  IF p = NoNode
             THEN Raise("AttributeError", st)
             ELSE LET t == st.nodes[p].children
                      old == Index(t, st.selection)
                  IN  IF old = 0
                      THEN Raise("ValueError", st)
                      ELSE Return([st EXCEPT
                              !.nodes[p].children = RemoveAt(t, old),
                              !.dirty = TRUE])

\* Tree._shift, faulty variant: the new position is counted one too far.
Tree__shift_off_by_one(st, direction) ==
    IF st.selection = NoNode
    THEN Raise("SelectionError", st)
    ELSE IF st.selection = st.root
    THEN Raise("TreemendousError", st)
    ELSE LET p == st.nodes[st.selection].parent
         IN  IF p = NoNode
             THEN Raise("AttributeError", st)
             ELSE LET t == st.nodes[p].children
                      old == Index(t, st.selection)
                  IN  IF old = 0
                      THEN Raise("ValueError", st)
                      ELSE Return([st EXCEPT
                              !.nodes[p].children =
                                  PyInsert(RemoveAt(t, old), old + direction,
                                           st.selection),
                              !.dirty = TRUE])

\* Tree._shift(self, direction): t.insert(new, t.pop(old))
Tree__shift(st, direction) ==
    IF st.selection = NoNode
    THEN Raise("SelectionError", st)
    ELSE IF st.selection = st.root
    THEN Raise("TreemendousError", st)
    ELSE LET p == st.nodes[st.selection].parent
         IN  IF p = NoNode
             THEN Raise("AttributeError", st)
             ELSE LET t == st.nodes[p].children
                      old == Index(t, st.selection)
                  IN  IF old = 0
                      THEN Raise("ValueError", st)
                      ELSE Return([st EXCEPT
                              !.nodes[p].children =
                                  PyInsert(RemoveAt(t, old), (old - 1) + direction,
                                           st.selection),
                              !.dirty = TRUE])

\* Tree.move_up(self)
Tree_move_up(st) == Tree__shift(st, -1)

\* Tree.move_down(self)
Tree_move_down(st) == Tree__shift(st, 1)

-----------------------------------------------------------------------------
(* SpecRecord: Node.from_dict on a record, then a round trip through to_dict *)

LabelChoices == {Missing, None, "", "a"}
ValueChoices == {Missing, "b"}

\* A dict with the keys that are given: a Missing label or value is a key the
\* dict lacks, and hasChildren = FALSE a dict without the key "children".
MkRec(l, v, cs, hasChildren) ==
    [key \in (IF l = Missing THEN {} ELSE {"label"})
             \cup (IF v = Missing THEN {} ELSE {"value"})
             \cup (IF hasChildren THEN {"children"} ELSE {}) |->
        IF key = "label" THEN l ELSE IF key = "value" THEN v ELSE cs]

\* The records of exactly n nodes, and the sequences of records of n nodes in all.
RECURSIVE RecordsOf(_), ForestsOf(_)
RecordsOf(n) ==
    IF n = 0 THEN {}
    ELSE {MkRec(l, v, f, TRUE) :
            l \in LabelChoices, v \in ValueChoices, f \in ForestsOf(n - 1)}
ForestsOf(n) ==
    IF n = 0 THEN {<<>>}
    ELSE UNION {{<<r>> \o f : r \in RecordsOf(k), f \in ForestsOf(n - k)} : k \in 1..n}

\* The records handed to from_dict: up to MaxRecNodes nodes, and the one-node
\* records that lack the key "children" (the empty dict among them).
InputRecords ==
    UNION {RecordsOf(n) : n \in 1..MaxRecNodes}
    \cup {MkRec(l, v, <<>>, FALSE) : l \in LabelChoices, v \in ValueChoices}

InitRecord ==
    /\ nodes = [n \in Cells |-> NewNode(None, None)]
    /\ used = 0
    /\ root = [d \in Docs |-> NoNode]
    /\ selection = [d \in Docs |-> NoNode]
    /\ dirty = [d \in Docs |-> FALSE]
    /\ pasteboard = NoRecord
    /\ rec \in InputRecords
    /\ built = <<NoNode, NoNode>>
    /\ InitFiles
    /\ InitParser
    /\ shown = NotShown
    /\ last = [op |-> "init", err |-> "ok"]

\* t = Node.from_dict(rec)
RecFromDict ==
    /\ built[1] = NoNode
    /\ LET r == from_dict(nodes, used, rec)
       IN  /\ nodes' = r.h
           /\ used' = r.used
           /\ built' = <<r.node, NoNode>>
    /\ last' = [op |-> "from_dict", err |-> "ok"]
    /\ UNCHANGED <<treeVars, rec, fileVars, gvVars, shown>>

\* t2 = Node.from_dict(t.to_dict())
RecRoundTrip ==
    /\ built[1] # NoNode
    /\ built[2] = NoNode
    /\ LET r == from_dict(nodes, used, to_dict(nodes, built[1]))
       IN  /\ nodes' = r.h
           /\ used' = r.used
           /\ built' = <<built[1], r.node>>
    /\ last' = [op |-> "round_trip", err |-> "ok"]
    /\ UNCHANGED <<treeVars, rec, fileVars, gvVars, shown>>

NextRecord ==
    \/ RecFromDict
    \/ RecRoundTrip

SpecRecord == InitRecord /\ [][NextRecord]_vars

\* Every child of a node of the subtree at n names that node as its parent.
ParentsMatch(h, n) ==
    \A p \in Subtree(h, n) : \A k \in 1..Len(h[p].children) : h[h[p].children[k]].parent = p

\* C2: a record decodes to the tree it describes, a key it lacks decoding to an
\* absent field and never to the empty string; and the tree rebuilt from
\* to_dict of a tree has the same labels, values, child order and absent fields,
\* a parentless root and each child's parent set to its container.
RoundTripIdentical ==
    /\ built[1] # NoNode =>
          /\ Decodes(nodes, built[1], rec)
          /\ nodes[built[1]].parent = NoNode
    /\ built[2] # NoNode =>
          /\ SameTree(nodes, built[1], built[2])
          /\ Subtree(nodes, built[1]) \cap Subtree(nodes, built[2]) = {}
          /\ nodes[built[2]].parent = NoNode
          /\ ParentsMatch(nodes, built[2])

\* C2 happens: a tree with an absent label, an empty label, a present value and
\* two children in order has been rebuilt from its record.
RoundTripWitness ==
    /\ built[2] # NoNode
    /\ "label" \notin DOMAIN rec
    /\ nodes[built[2]].label = None
    /\ Len(nodes[built[2]].children) = 2
    /\ nodes[nodes[built[2]].children[1]].label = ""
    /\ nodes[nodes[built[2]].children[2]].label = "a"
    /\ nodes[nodes[built[2]].children[2]].value = "b"

-----------------------------------------------------------------------------
(* SpecNode: the Node methods, called by a client that holds MaxNodes nodes *)

\* The record kept of a call: its name and outcome and, when it succeeded, the
\* nodes it was given.
Call(op, a, b, e) ==
    IF e = "ok"
    THEN [op |-> op, self |-> a, arg |-> b, err |-> e]
    ELSE [op |-> op, self |-> NoNode, arg |-> NoNode, err |-> e]

InitNode ==
    /\ nodes = [n \in Cells |-> NewNode(None, None)]
    /\ used = 0
    /\ root = [d \in Docs |-> NoNode]
    /\ selection = [d \in Docs |-> NoNode]
    /\ dirty = [d \in Docs |-> FALSE]
    /\ pasteboard = NoRecord
    /\ rec = NoRecord
    /\ built = <<NoNode, NoNode>>
    /\ InitFiles
    /\ InitParser
    /\ shown = NotShown
    /\ last = Call("init", NoNode, NoNode, "ok")

\* The client's nodes are interchangeable until a call has changed them, so it
\* takes them in order: a call is made on the nodes taken so far and on the next
\* one or two that Node() constructs. used counts the nodes taken; the nodes of a
\* rejected call are as Node() made them and are not counted.
Taken(a, b, e) == IF e = "ok" THEN Max(used, Max(a, b)) ELSE used

\* p.add_child(c)
NodeAddChild(p, c) ==
    /\ p <= used + 1
    /\ c <= Max(used, p) + 1
    /\ LET r == add_child(nodes, p, c)
       IN  /\ nodes' = r.h
           /\ used' = Taken(p, c, r.err)
           /\ last' = Call("add_child", p, c, r.err)
    /\ UNCHANGED <<treeVars, recVars, fileVars, gvVars, shown>>

\* n.delete()
NodeDelete(n) ==
    /\ n <= used + 1
    /\ LET r == delete(nodes, n)
       IN  /\ nodes' = r.h
           /\ used' = Taken(n, n, r.err)
           /\ last' = Call("delete", n, NoNode, r.err)
    /\ UNCHANGED <<treeVars, recVars, fileVars, gvVars, shown>>

\* n.add_parent(q)
NodeAddParent(n, q) ==
    /\ n <= used + 1
    /\ q <= Max(used, n) + 1
    /\ LET r == add_parent(nodes, n, q)
       IN  /\ nodes' = r.h
           /\ used' = Taken(n, q, r.err)
           /\ last' = Call("add_parent", n, q, r.err)
    /\ UNCHANGED <<treeVars, recVars, fileVars, gvVars, shown>>

NextNode ==
    \/ \E p, c \in NodeIds : NodeAddChild(p, c)
    \/ \E n \in NodeIds : NodeDelete(n)
    \/ \E n, q \in NodeIds : NodeAddParent(n, q)

SpecNode == InitNode /\ [][NextNode]_vars

\* The call made by the step was rejected and left every node as it was.
Rejected == last'.err # "ok" /\ nodes' = nodes

\* C3: add_child of a child that has a parent, delete of a node without parent,
\* and add_parent of a node without parent or onto a node that has a parent are
\* rejected, and every node's parent and children are as before the call; no
\* rejected call of any kind changes a node.
RejectedCallsMutateNothing ==
    [][/\ \A p, c \in NodeIds :
            nodes[c].parent # NoNode /\ NodeAddChild(p, c) => Rejected
       /\ \A n \in NodeIds :
            nodes[n].parent = NoNode /\ NodeDelete(n) => Rejected
       /\ \A n, q \in NodeIds :
            (nodes[n].parent = NoNode \/ nodes[q].parent # NoNode) /\ NodeAddParent(n, q)
                => Rejected
       /\ (last'.err # "ok" => nodes' = nodes)]_vars

\* C3 happens: add_parent has been rejected in a graph that has edges.
RejectedCallWitness ==
    /\ last.op = "add_parent"
    /\ last.err = "AssertionError"
    /\ \E n \in NodeIds : Len(nodes[n].children) = 2

\* s without its elements equal to x, the others in their order.
Without(s, x) == SelectSeq(s, LAMBDA y : y # x)

\* C4: a successful delete of n takes exactly n out of the children of its
\* parent, the other children keeping their order; no other children list
\* changes; and n still reaches every descendant it had.
DeleteRemovesExactlyNode ==
    [][\A n \in NodeIds :
          last'.err = "ok" /\ NodeDelete(n) =>
              LET p == nodes[n].parent
              IN  /\ nodes'[p].children = Without(nodes[p].children, n)
                  /\ Len(nodes'[p].children) = Len(nodes[p].children) - 1
                  /\ \A m \in NodeIds \ {p} : nodes'[m].children = nodes[m].children
                  /\ Descendants(nodes, n) \ {n} \subseteq Descendants(nodes', n)]_vars

\* C4 happens: a node that has a child has been deleted from a parent that keeps
\* another child.
DeleteWitness ==
    /\ last.op = "delete"
    /\ last.err = "ok"
    /\ Len(nodes[last.self].children) = 1
    /\ Len(nodes[nodes[last.self].parent].children) = 1

\* C5, as claimed: after a successful delete the node has no parent.
DeleteClearsParent ==
    (last.op = "delete" /\ last.err = "ok") => nodes[last.self].parent = NoNode

\* C6, as claimed: after a successful n.add_parent(q), q is where n was among the
\* children of n's former parent p, p has as many children as before and the
\* others are where they were, n is not a child of p, and q.parent = p,
\* n.parent = q.
AddParentKeepsIndex ==
    [][\A n, q \in NodeIds :
          last'.err = "ok" /\ NodeAddParent(n, q) =>
              LET p == nodes[n].parent
                  i == Index(nodes[p].children, n)
              IN  /\ nodes'[p].children[i] = q
                  /\ Len(nodes'[p].children) = Len(nodes[p].children)
                  /\ \A k \in 1..Len(nodes[p].children) :
                        k # i => nodes'[p].children[k] = nodes[p].children[k]
                  /\ n \notin Range(nodes'[p].children)
                  /\ nodes'[q].parent = p
                  /\ nodes'[n].parent = q]_vars

\* C7, as claimed: after a successful n.add_parent(q), n is the only child of q.
AddParentSoleChild ==
    (last.op = "add_parent" /\ last.err = "ok") =>
        nodes[last.arg].children = <<last.self>>

\* C7, amended: a successful n.add_parent(q) appends n to the children of q, which
\* has one child more than before; n is the only child of q exactly when q had
\* no child before the call.
AddParentAppendsChild ==
    [][\A n, q \in NodeIds :
          last'.err = "ok" /\ NodeAddParent(n, q) =>
              /\ Len(nodes'[q].children) = Len(nodes[q].children) + 1
              /\ nodes'[q].children[Len(nodes'[q].children)] = n
              /\ nodes'[n].parent = q
              /\ (nodes'[q].children = <<n>>) <=> (nodes[q].children = <<>>)]_vars

\* C7 happens: add_parent has made a node the second child of a new parent that
\* had a child of its own, in a graph without cycle.
AddParentWitness ==
    /\ last.op = "add_parent"
    /\ last.err = "ok"
    /\ Len(nodes[last.arg].children) = 2
    /\ nodes[last.arg].children[2] = last.self
    /\ IsForest(nodes, NodeIds)

\* C8, as claimed: no node is its own descendant (nor its own child).
NoCycle == \A n \in NodeIds : n \notin Descendants(nodes, n)

-----------------------------------------------------------------------------
(* Spec: one Tree, driven through its methods and the selection of the view *)

\* The Trees that are edited in Spec.
SpecDocs == {1}

\* The texts handed to Tree.add and Tree.edit in Spec, which explores the shape
\* of the tree: an empty field (stored as None) and, for edit, a field not given.
AddLabels == {""}
AddValues == {""}
EditLabels == {None, ""}
EditValues == {None, ""}

\* The record kept of a Tree call.
TreeCall(op, d, where, e) == [op |-> op, doc |-> d, where |-> where, err |-> e]

Init ==
    /\ nodes = [n \in Cells |-> NewNode(None, None)]
    /\ used = 0
    /\ root = [d \in Docs |-> NoNode]
    /\ selection = [d \in Docs |-> NoNode]
    /\ dirty = [d \in Docs |-> FALSE]
    /\ pasteboard = NoRecord
    /\ rec = NoRecord
    /\ built = <<NoNode, NoNode>>
    /\ InitFiles
    /\ InitParser
    /\ shown = NotShown
    /\ last = TreeCall("init", 1, "-", "ok")

\* The Node objects a document can still reach from the handles in R: Tree keeps
\* only root and selection, and a Node refers to its children and its parent.
RECURSIVE Referenced(_, _)
Referenced(h, R) ==
    LET T == R \cup UNION {Range(h[n].children) : n \in R}
               \cup ({h[n].parent : n \in R} \ {NoNode})
    IN  IF T = R THEN R ELSE Referenced(h, T)

\* A Node that no Tree can reach any more (a subtree cut off by tree.delete) is
\* an object the interpreter frees: its cell goes back to the blank state. Cells
\* are never handed out again, so a freed node is never mistaken for a new one.
Release(h, R) ==
    LET live == Referenced(h, R \ {NoNode})
    IN  [n \in Cells |-> IF n \in live THEN h[n] ELSE NewNode(None, None)]

\* The state a method left becomes the state of Tree d.
Commit(d, r, call) ==
    /\ nodes' = Release(r.st.nodes,
                        {r.st.root, r.st.selection}
                            \cup {root[e] : e \in Docs \ {d}}
                            \cup {selection[e] : e \in Docs \ {d}})
    /\ used' = r.st.used
    /\ root' = [root EXCEPT ![d] = r.st.root]
    /\ selection' = [selection EXCEPT ![d] = r.st.selection]
    /\ dirty' = [dirty EXCEPT ![d] = r.st.dirty]
    /\ pasteboard' = r.st.pasteboard
    /\ last_path' = [last_path EXCEPT ![d] = r.st.last_path]
    /\ manifest' = [manifest EXCEPT ![d] = r.st.manifest]
    /\ disk' = r.st.disk
    /\ last' = call
    /\ UNCHANGED <<recVars, gvVars, shown>>

\* tree.add(where, label, value)
Add(d, where, label, value) ==
    /\ used < MaxTreeNodes
    /\ LET r == Tree_add(TreeState(d), where, label, value)
       IN  Commit(d, r, TreeCall("add", d, where, r.err))

\* tree.edit(label, value)
Edit(d, label, value) ==
    LET r == Tree_edit(TreeState(d), label, value)
    IN  Commit(d, r, TreeCall("edit", d, "-", r.err))

\* tree.delete()
Delete(d) ==
    LET r == Tree_delete(TreeState(d))
    IN  Commit(d, r, TreeCall("delete", d, "-", r.err))

\* tree.copy()
Copy(d) ==
    LET r == Tree_copy(TreeState(d))
    IN  Commit(d, r, TreeCall("copy", d, "-", r.err))

\* tree.paste(where)
Paste(d, where) ==
    /\ pasteboard # NoRecord => used + RecSize(pasteboard) <= MaxTreeNodes
    /\ LET r == Tree_paste(TreeState(d), where)
       IN  Commit(d, r, TreeCall("paste", d, where, r.err))

\* tree.move_up()
MoveUp(d) ==
    LET r == Tree_move_up(TreeState(d))
    IN  Commit(d, r, TreeCall("move_up", d, "-", r.err))

\* tree.move_down()
MoveDown(d) ==
    LET r == Tree_move_down(TreeState(d))
    IN  Commit(d, r, TreeCall("move_down", d, "-", r.err))

\* The view's selection handler: tree.selection = a node shown in the view.
Select(d, n) ==
    /\ root[d] # NoNode
    /\ n \in Subtree(nodes, root[d])
    /\ selection' = [selection EXCEPT ![d] = n]
    /\ last' = TreeCall("select", d, "-", "ok")
    /\ UNCHANGED <<nodes, used, root, dirty, pasteboard, recVars, fileVars, gvVars, shown>>

Next ==
    \/ \E d \in SpecDocs, w \in Locations, l \in AddLabels, v \in AddValues :
          Add(d, w, l, v)
    \/ \E d \in SpecDocs, l \in EditLabels, v \in EditValues : Edit(d, l, v)
    \/ \E d \in SpecDocs : Delete(d)
    \/ \E d \in SpecDocs : Copy(d)
    \/ \E d \in SpecDocs, w \in Locations : Paste(d, w)
    \/ \E d \in SpecDocs : MoveUp(d)
    \/ \E d \in SpecDocs : MoveDown(d)
    \/ \E d \in SpecDocs, n \in NodeIds : Select(d, n)

Spec == Init /\ [][Next]_vars

\* No reference leads to a cell that holds no node.
HeapClosed ==
    /\ \A d \in Docs : root[d] <= used /\ selection[d] <= used
    /\ \A n \in Cells :
          IF n <= used
          THEN nodes[n].parent <= used /\ \A k \in 1..Len(nodes[n].children) :
                                              nodes[n].children[k] <= used
          ELSE nodes[n] = NewNode(None, None)

\* C1: in every state of a Tree, whatever calls succeeded or failed before, the
\* root has no parent and its subtree is a forest: every child names its
\* container as parent, no node is listed twice, no node is its own descendant.
TreeWellFormed ==
    \A d \in Docs :
        root[d] # NoNode =>
            /\ nodes[root[d]].parent = NoNode
            /\ IsForest(nodes, Subtree(nodes, root[d]))

\* C1 happens: move_up has failed on the root of a tree of four nodes on three
\* levels, whose root was added as a parent.
TreeWellFormedWitness ==
    /\ last.op = "move_up"
    /\ last.err = "TreemendousError"
    /\ root[1] > 1
    /\ Cardinality(Subtree(nodes, root[1])) = 4
    /\ Len(nodes[root[1]].children) = 1
    /\ Len(nodes[nodes[root[1]].children[1]].children) = 2

\* The node a successful add or paste of the step constructed first.
NewNodeOf == used + 1

\* C9: on an empty Tree, add with any Location succeeds, and so does paste once
\* something was copied, whether or not a selection is left over: the new node
\* is the root and has no parent.
AddToEmptyMakesRoot ==
    [][\A d \in SpecDocs, w \in Locations :
          /\ \A l \in AddLabels, v \in AddValues :
                root[d] = NoNode /\ Add(d, w, l, v) =>
                    /\ last'.err = "ok"
                    /\ root'[d] = NewNodeOf
                    /\ nodes'[NewNodeOf].parent = NoNode
                    /\ nodes'[NewNodeOf].children = <<>>
          /\ root[d] = NoNode /\ pasteboard # NoRecord /\ Paste(d, w) =>
                    /\ last'.err = "ok"
                    /\ root'[d] = NewNodeOf
                    /\ nodes'[NewNodeOf].parent = NoNode
                    /\ Decodes(nodes', NewNodeOf, pasteboard)]_vars

\* C9 happens: a two-node subtree has been pasted with Location.SIBLING into a
\* Tree whose earlier root was deleted, and is the root.
AddToEmptyWitness ==
    /\ last.op = "paste"
    /\ last.where = "SIBLING"
    /\ last.err = "ok"
    /\ root[1] > 2
    /\ Subtree(nodes, root[1]) = {root[1], root[1] + 1}
    /\ nodes[root[1]].parent = NoNode

\* The step is a successful add or paste of Tree d with Location.PARENT.
PlacedAsParent(d) ==
    /\ last'.err = "ok"
    /\ last'.where = "PARENT"
    /\ \/ \E l \in AddLabels, v \in AddValues : Add(d, "PARENT", l, v)
       \/ Paste(d, "PARENT")

\* The subtree at n is in nodes' what it was in nodes.
SubtreeIntact(n) ==
    /\ Subtree(nodes', n) = Subtree(nodes, n)
    /\ \A m \in Subtree(nodes, n) :
          /\ nodes'[m].children = nodes[m].children
          /\ nodes'[m].label = nodes[m].label
          /\ nodes'[m].value = nodes[m].value
          /\ m # n => nodes'[m].parent = nodes[m].parent

\* C10: a successful add or paste with Location.PARENT, on a non-empty Tree. When
\* the selection is the root, the new node is the root, has no parent, and the
\* old root is a child of it with its subtree as it was. Otherwise the new node
\* is where the selection was among the children of the selection's parent,
\* whose other children stay where they were, and the selection is a child of
\* the new node with its subtree as it was.
ParentPlacement ==
    [][\A d \in SpecDocs :
          root[d] # NoNode /\ PlacedAsParent(d) =>
              LET s == selection[d]
                  p == nodes[s].parent
                  i == Index(nodes[p].children, s)
              IN  /\ nodes'[s].parent = NewNodeOf
                  /\ s \in Range(nodes'[NewNodeOf].children)
                  /\ SubtreeIntact(s)
                  /\ IF s = root[d]
                     THEN /\ root'[d] = NewNodeOf
                          /\ nodes'[NewNodeOf].parent = NoNode
                     ELSE /\ root'[d] = root[d]
                          /\ nodes'[NewNodeOf].parent = p
                          /\ Len(nodes'[p].children) = Len(nodes[p].children)
                          /\ \A k \in 1..Len(nodes[p].children) :
                                nodes'[p].children[k] =
                                    IF k = i THEN NewNodeOf ELSE nodes[p].children[k]]_vars

\* C10 happens: a node was added as the parent of the second of two children: it
\* is the second child, is selected, and its only child is the former second child.
ParentPlacementWitness ==
    /\ last.op = "add"
    /\ last.where = "PARENT"
    /\ last.err = "ok"
    /\ root[1] # NoNode
    /\ Len(nodes[root[1]].children) = 2
    /\ nodes[root[1]].children[2] = selection[1]
    /\ nodes[selection[1]].children = <<selection[1] - 1>>


\* The step is a successful add or paste of Tree d.
Placed(d) ==
    /\ last'.err = "ok"
    /\ \/ \E w \in Locations, l \in AddLabels, v \in AddValues : Add(d, w, l, v)
       \/ \E w \in Locations : Paste(d, w)

\* C11: after a successful add or paste the selection is the node that was
\* inserted (for paste, the root of the pasted subtree), dirty is set, and that
\* node is in the subtree of the root.
PlacedIsSelected ==
    [][\A d \in SpecDocs :
          Placed(d) =>
              /\ selection'[d] = NewNodeOf
              /\ dirty'[d]
              /\ root'[d] # NoNode
              /\ NewNodeOf \in Subtree(nodes', root'[d])]_vars

\* C11 happens: a two-node subtree was pasted as a sibling of a non-root node:
\* its root is selected, is not the root of the Tree, and the Tree is dirty.
PlacedIsSelectedWitness ==
    /\ last.op = "paste"
    /\ last.where = "SIBLING"
    /\ last.err = "ok"
    /\ selection[1] # root[1]
    /\ dirty[1]
    /\ Len(nodes[selection[1]].children) = 1
    /\ selection[1] \in Range(nodes[root[1]].children)

-----------------------------------------------------------------------------
(* SpecShared: the Trees of the process, opened from files or built by hand, *)
(* with labels and values that differ, sharing the module's pasteboard       *)

\* Bound: the number of Node objects constructed in one behaviour of SpecShared.
MaxSharedNodes == 3

\* Bound: the number of nodes of the tree.json record of a file that is opened.
MaxFileNodes == 2

\* The texts tree.add is called with in SpecShared, and the <<label, value>>
\* pairs tree.edit is called with: neither argument given (both None, the
\* default) or both empty, so a node carries its texts or has lost them.
SharedAddLabels == {"a"}
SharedAddValues == {"b"}
SharedEdits == {<<None, None>>, <<"", "">>}

\* The tree.json records of the files that are opened: what Tree.save wrote for
\* trees of up to MaxFileNodes such nodes.
RECURSIVE SavedRecords(_), SavedForests(_)
SavedRecords(n) ==
    IF n = 0 THEN {}
    ELSE {MkRec("a", "b", f, TRUE) : f \in SavedForests(n - 1)}
SavedForests(n) ==
    IF n = 0 THEN {<<>>}
    ELSE UNION {{<<r>> \o f : r \in SavedRecords(k), f \in SavedForests(n - k)} : k \in 1..n}
FileRecords == UNION {SavedRecords(n) : n \in 1..MaxFileNodes}

\* The message of IncompatibleFormatError: which of the two texts it is and the
\* their_version it is formatted with.
TooNew(their_major) == [text |-> "too new", their_version |-> <<their_major, 0, 0>>]
Damaged == [text |-> "invalid", their_version |-> <<>>]
NoMessage == [text |-> "", their_version |-> <<>>]

\* An outcome of Tree.__init__: the exception, its message and the state left.
Failed(e, m, st) == [err |-> e, msg |-> m, st |-> st]

\* Tree.__init__, faulty variant: the whole version is compared, not the major.
Tree___init___whole_version(st, path, file) ==
    LET new == [st EXCEPT !.dirty = FALSE, !.last_path = path,
                          !.selection = NoNode, !.manifest = DEFAULT_MANIFEST]
    IN  IF path = NoPath THEN Failed("ok", NoMessage, [new EXCEPT !.root = NoNode])
        ELSE IF file = Absent THEN Failed("FileNotFoundError", NoMessage, st)
        ELSE IF file = NotZip THEN Failed("IncompatibleFormatError", Damaged, st)
        ELSE IF "manifest" \notin DOMAIN file
             THEN Failed("IncompatibleFormatError", Damaged, st)
        ELSE LET m == Update(new.manifest, file.manifest)
                 my_major == Major(CodecVersion)
                 their_major == Major(m.version)
             IN  IF my_major < their_major \/ CodecVersion[2] < m.version[2]
                 THEN Failed("IncompatibleFormatError", TooNew(their_major), st)
                 ELSE IF "tree" \notin DOMAIN file
                      THEN Failed("IncompatibleFormatError", Damaged, st)
                 ELSE IF file.tree = Unparsable
                      THEN Failed("JSONDecodeError", NoMessage, st)
                 ELSE LET c == from_dict(st.nodes, st.used, file.tree)
                      IN  Failed("ok", NoMessage,
                                 [new EXCEPT !.nodes = c.h, !.used = c.used,
                                             !.root = c.node, !.manifest = m])

\* Tree.__init__, faulty variant: an archive without tree.json opens as an
\* empty Tree.
Tree___init___empty_without_tree(st, path, file) ==
    LET new == [st EXCEPT !.dirty = FALSE, !.last_path = path,
                          !.selection = NoNode, !.manifest = DEFAULT_MANIFEST]
    IN  IF path = NoPath THEN Failed("ok", NoMessage, [new EXCEPT !.root = NoNode])
        ELSE IF file = Absent THEN Failed("FileNotFoundError", NoMessage, st)
        ELSE IF file = NotZip THEN Failed("IncompatibleFormatError", Damaged, st)
        ELSE IF "manifest" \notin DOMAIN file
             THEN Failed("IncompatibleFormatError", Damaged, st)
        ELSE LET m == Update(new.manifest, file.manifest)
                 my_major == Major(CodecVersion)
                 their_major == Major(m.version)
             IN  IF my_major < their_major
                 THEN Failed("IncompatibleFormatError", TooNew(their_major), st)
                 ELSE IF "tree" \notin DOMAIN file
                      THEN Failed("ok", NoMessage,
                                  [new EXCEPT !.root = NoNode, !.manifest = m])
                 ELSE IF file.tree = Unparsable
                      THEN Failed("JSONDecodeError", NoMessage, st)
                 ELSE LET c == from_dict(st.nodes, st.used, file.tree)
                      IN  Failed("ok", NoMessage,
                                 [new EXCEPT !.nodes = c.h, !.used = c.used,
                                             !.root = c.node, !.manifest = m])

\* Tree.__init__(self, path), where file is what is stored under path. The
\* manifest is read and judged before tree.json is opened; a missing entry is a
\* KeyError and a file that is no archive a BadZipFile, both raised again as
\* IncompatibleFormatError. A constructor that raises leaves no Tree: the state
\* is the one before the call.
Tree___init__(st, path, file) ==
    LET new == [st EXCEPT !.dirty = FALSE, !.last_path = path,
                          !.selection = NoNode, !.manifest = DEFAULT_MANIFEST]
    IN  IF path = NoPath THEN Failed("ok", NoMessage, [new EXCEPT !.root = NoNode])
        ELSE IF file = Absent THEN Failed("FileNotFoundError", NoMessage, st)
        ELSE IF file = NotZip THEN Failed("IncompatibleFormatError", Damaged, st)
        ELSE IF "manifest" \notin DOMAIN file
             THEN Failed("IncompatibleFormatError", Damaged, st)
        ELSE LET m == Update(new.manifest, file.manifest)
                 my_major == Major(CodecVersion)
                 their_major == Major(m.version)
             IN  IF my_major < their_major
                 THEN Failed("IncompatibleFormatError", TooNew(their_major), st)
                 ELSE IF "tree" \notin DOMAIN file
                      THEN Failed("IncompatibleFormatError", Damaged, st)
                 ELSE IF file.tree = Unparsable
                      THEN Failed("JSONDecodeError", NoMessage, st)
                 ELSE LET c == from_dict(st.nodes, st.used, file.tree)
                      IN  Failed("ok", NoMessage,
                                 [new EXCEPT !.nodes = c.h, !.used = c.used,
                                             !.root = c.node, !.manifest = m])

\* Tree.save, faulty variant: an export records the save as the archive does.
Tree_save_export_records(st, path) ==
    IF path = NoPath /\ st.last_path = NoPath THEN Raise("SaveError", st)
    ELSE LET p == IF path = NoPath THEN st.last_path ELSE path
         IN  IF EndsWith(p, ".gv") \/ EndsWith(p, ".png")
             THEN IF st.root = NoNode THEN Raise("AttributeError", st)
                  ELSE IF to_graphviz(st.nodes, st.root).err # "ok"
                  THEN Raise(to_graphviz(st.nodes, st.root).err, st)
                  ELSE Return([st EXCEPT !.disk[p] = NotZip, !.dirty = FALSE,
                                         !.last_path = p])
             ELSE IF st.root = NoNode
                  THEN Raise("AttributeError", [st EXCEPT !.disk[p] = [tree |-> Unparsable]])
                  ELSE Return([st EXCEPT
                          !.disk[p] = [tree |-> to_dict(st.nodes, st.root),
                                       manifest |-> st.manifest],
                          !.dirty = FALSE,
                          !.last_path = p])

\* Tree.save(self, path): to the last path when none is given; a .gv or .png
\* path exports and returns, any other path gets the archive, tree.json first.
Tree_save(st, path) ==
    IF path = NoPath /\ st.last_path = NoPath THEN Raise("SaveError", st)
    ELSE LET p == IF path = NoPath THEN st.last_path ELSE path
         IN  IF EndsWith(p, ".gv") \/ EndsWith(p, ".png")
             THEN IF st.root = NoNode THEN Raise("AttributeError", st)
                  ELSE IF to_graphviz(st.nodes, st.root).err # "ok"
                  THEN Raise(to_graphviz(st.nodes, st.root).err, st)
                  ELSE Return([st EXCEPT !.disk[p] = NotZip])
             ELSE IF st.root = NoNode
                  THEN Raise("AttributeError", [st EXCEPT !.disk[p] = [tree |-> Unparsable]])
                  ELSE Return([st EXCEPT
                          !.disk[p] = [tree |-> to_dict(st.nodes, st.root),
                                       manifest |-> st.manifest],
                          !.dirty = FALSE,
                          !.last_path = p])

\* Tree.notes, faulty variant: the setter does not mark the Tree dirty.
Tree_notes_unmarked(st, new) ==
    Return([st EXCEPT !.manifest = Update(@, [notes |-> new])])

\* Tree.notes, the setter
Tree_notes(st, new) ==
    Return([st EXCEPT !.manifest = Update(@, [notes |-> new]), !.dirty = TRUE])

\* The path and the content of the files OpenTree is handed in SpecShared and
\* SpecEdit: archives the running version wrote, whose tree.json is data.
OpenedPath == <<"opened", Container>>
Written(data) == [manifest |-> DEFAULT_MANIFEST, tree |-> data]

\* self.tree = Tree(path): the window's Tree d is replaced by the one opened.
Open(d, data) ==
    /\ used + RecSize(data) <= MaxSharedNodes
    /\ LET r == Tree___init__(TreeState(d), OpenedPath, Written(data))
       IN  Commit(d, r, TreeCall("open", d, "-", r.err))

NextShared ==
    \/ \E d \in Docs, data \in FileRecords : Open(d, data)
    \/ \E d \in Docs, w \in Locations, l \in SharedAddLabels, v \in SharedAddValues :
          used < MaxSharedNodes /\ Add(d, w, l, v)
    \/ \E d \in Docs, t \in SharedEdits : Edit(d, t[1], t[2])
    \/ \E d \in Docs : Delete(d)
    \/ \E d \in Docs : Copy(d)
    \/ \E d \in Docs, w \in Locations :
          /\ pasteboard # NoRecord => used + RecSize(pasteboard) <= MaxSharedNodes
          /\ Paste(d, w)
    \/ \E d \in Docs : MoveUp(d)
    \/ \E d \in Docs : MoveDown(d)
    \/ \E d \in Docs, n \in NodeIds : Select(d, n)

SpecShared == Init /\ [][NextShared]_vars

\* The step leaves the heap, every Tree's attributes and the pasteboard alone.
DocumentsUnchanged == UNCHANGED <<nodes, used, root, selection, dirty, pasteboard>>

\* The step is tree.add or tree.paste on Tree d, in SpecShared.
SharedPlace(d) ==
    \/ \E w \in Locations, l \in SharedAddLabels, v \in SharedAddValues : Add(d, w, l, v)
    \/ \E w \in Locations : Paste(d, w)

\* C12: while a Tree has no selection, delete, copy, move_up and move_down, and
\* add and paste when the Tree is not empty, raise SelectionError and leave the
\* root, the nodes, the selection, dirty and the pasteboard as they were.
NoSelectionRejected ==
    [][\A d \in Docs :
          selection[d] = NoNode /\ last'.doc = d =>
              /\ root[d] # NoNode /\ SharedPlace(d) =>
                    last'.err = "SelectionError" /\ DocumentsUnchanged
              /\ Delete(d) \/ Copy(d) \/ MoveUp(d) \/ MoveDown(d) =>
                    last'.err = "SelectionError" /\ DocumentsUnchanged]_vars

\* C12 happens: a paste was refused in a Tree that was opened from a file and has
\* nothing selected, while the pasteboard holds a copy made in the other Tree.
NoSelectionWitness ==
    /\ last.op = "paste"
    /\ last.doc = 2
    /\ last.err = "SelectionError"
    /\ pasteboard # NoRecord
    /\ root[2] # NoNode
    /\ selection[2] = NoNode
    /\ ~dirty[2]

\* C13: while the root is selected, add with Location.SIBLING, and paste with
\* Location.SIBLING of what was copied, raise TreemendousError ("The root cannot
\* have siblings!"), move_up and move_down raise TreemendousError ("Cannot shift
\* the root!"), and the root, the nodes, the selection and dirty stay as they were.
RootRejectsSiblingAndShift ==
    [][\A d \in SpecDocs :
          selection[d] # NoNode /\ selection[d] = root[d] =>
              /\ \/ \E l \in AddLabels, v \in AddValues : Add(d, "SIBLING", l, v)
                 \/ pasteboard # NoRecord /\ Paste(d, "SIBLING")
                 => last'.err = "TreemendousError" /\ DocumentsUnchanged
              /\ MoveUp(d) \/ MoveDown(d) =>
                    last'.err = "TreemendousError" /\ DocumentsUnchanged]_vars

\* C13 happens: pasting a two-node subtree as a sibling of the selected root, which
\* has a child, was refused.
RootRejectsWitness ==
    /\ last.op = "paste"
    /\ last.where = "SIBLING"
    /\ last.err = "TreemendousError"
    /\ selection[1] = root[1]
    /\ Len(nodes[root[1]].children) = 1
    /\ RecSize(pasteboard) = 2

\* C14: delete with a selected node S that is not the root and has the parent P
\* succeeds: P is selected, S is out of P's children, which otherwise keep their
\* order, the Tree keeps its root and exactly the nodes outside S's subtree, each
\* of them but P as it was, and dirty is set.
DeleteBelowRoot ==
    [][\A d \in SpecDocs :
          LET S == selection[d]
              P == nodes[S].parent
          IN  S # NoNode /\ S # root[d] /\ P # NoNode /\ Delete(d) =>
                  /\ last'.err = "ok"
                  /\ selection'[d] = P
                  /\ nodes'[P].children = Without(nodes[P].children, S)
                  /\ Len(nodes'[P].children) = Len(nodes[P].children) - 1
                  /\ root'[d] = root[d]
                  /\ Subtree(nodes', root'[d]) =
                         Subtree(nodes, root[d]) \ Subtree(nodes, S)
                  /\ \A m \in Subtree(nodes', root'[d]) \ {P} : nodes'[m] = nodes[m]
                  /\ nodes'[P].parent = nodes[P].parent
                  /\ dirty'[d]]_vars

\* C14 happens: the second of the root's three children was deleted: the root is
\* selected and keeps the first and the third child in that order.
DeleteBelowRootWitness ==
    /\ last.op = "delete"
    /\ last.err = "ok"
    /\ selection[1] = root[1]
    /\ nodes[root[1]].children = <<2, 4>>
    /\ dirty[1]

-----------------------------------------------------------------------------
(* SpecEdit: one Tree, opened from a file or built by hand, whose nodes are   *)
(* given and lose labels and values; nothing is copied                        *)

\* Bound: the number of Node objects constructed in one behaviour of SpecEdit.
MaxEditNodes == 2

\* The texts tree.add and tree.edit are called with in SpecEdit; None is an
\* argument of tree.edit that is not given (label: str = None, value: str = None).
EditAddLabels == {"", "a"}
EditAddValues == {"", "b"}
EditNewLabels == {None, "", "c"}
EditNewValues == {None, "", "d"}

NextEdit ==
    \/ \E d \in SpecDocs, data \in FileRecords :
          used + RecSize(data) <= MaxEditNodes /\ Open(d, data)
    \/ \E d \in SpecDocs, w \in Locations, l \in EditAddLabels, v \in EditAddValues :
          used < MaxEditNodes /\ Add(d, w, l, v)
    \/ \E d \in SpecDocs, l \in EditNewLabels, v \in EditNewValues : Edit(d, l, v)
    \/ \E d \in SpecDocs : Delete(d)
    \/ \E d \in SpecDocs : MoveUp(d)
    \/ \E d \in SpecDocs : MoveDown(d)
    \/ \E d \in SpecDocs, n \in NodeIds : Select(d, n)

SpecEdit == Init /\ [][NextEdit]_vars

\* What tree.edit makes of a field that holds old when it is handed given.
Edited(old, given) == IF given = None THEN old ELSE IF given = "" THEN None ELSE given

\* C15: edit(label, value) with a node selected succeeds; each field of the
\* selected node is cleared by "", kept by None and replaced by any other text;
\* nothing else in any Tree changes; dirty is set whenever a field changed; and
\* edit(None, None) changes nothing, dirty included.
EditSetsFields ==
    [][\A d \in SpecDocs, l \in EditNewLabels, v \in EditNewValues :
          selection[d] # NoNode /\ last'.op = "edit" /\ Edit(d, l, v) =>
              LET s == selection[d]
              IN  /\ last'.err = "ok"
                  /\ nodes'[s] = [nodes[s] EXCEPT !.label = Edited(nodes[s].label, l),
                                                  !.value = Edited(nodes[s].value, v)]
                  /\ \A m \in Cells \ {s} : nodes'[m] = nodes[m]
                  /\ UNCHANGED <<used, root, selection, pasteboard>>
                  /\ nodes'[s] # nodes[s] => dirty'[d]
                  /\ l = None /\ v = None => DocumentsUnchanged]_vars

\* C15 happens: on a node added with label "a" and value "b", under a root, edit
\* replaced the label and kept the value.
EditSetsFieldsWitness ==
    /\ last.op = "edit"
    /\ last.err = "ok"
    /\ selection[1] # NoNode
    /\ selection[1] # root[1]
    /\ nodes[selection[1]].label = "c"
    /\ nodes[selection[1]].value = "b"
    /\ dirty[1]

-----------------------------------------------------------------------------
(* Spec: moving the selection among its siblings *)

\* The sequence t with the elements at i and j exchanged.
Swap(t, i, j) ==
    [k \in 1..Len(t) |-> IF k = i THEN t[j] ELSE IF k = j THEN t[i] ELSE t[k]]

\* The step changed, in the heap, at most the children of p, to t, and set dirty
\* in Tree d; root, selection and pasteboard are as they were.
OnlyChildrenOf(d, p, t) ==
    /\ nodes' = [nodes EXCEPT ![p].children = t]
    /\ dirty'[d]
    /\ UNCHANGED <<used, root, selection, pasteboard>>

\* C16: move_up on a selected node that is not the first child of its parent
\* exchanges it with the sibling before it, and move_down on one that is not the
\* last child exchanges it with the sibling after it; every other sibling keeps
\* its index, no other node changes, the selection stays, and dirty is set.
MoveSwapsNeighbours ==
    [][\A d \in SpecDocs :
          LET s == selection[d]
              p == nodes[s].parent
              t == nodes[p].children
              i == Index(t, s)
          IN  s # NoNode /\ s # root[d] /\ p # NoNode =>
                  /\ i > 1 /\ MoveUp(d) =>
                        last'.err = "ok" /\ OnlyChildrenOf(d, p, Swap(t, i, i - 1))
                  /\ i >= 1 /\ i < Len(t) /\ MoveDown(d) =>
                        last'.err = "ok" /\ OnlyChildrenOf(d, p, Swap(t, i, i + 1))]_vars

\* C16 happens: the first of the root's three children was moved down and is now
\* the second, the third staying where it was.
MoveSwapsWitness ==
    /\ last.op = "move_down"
    /\ last.err = "ok"
    /\ nodes[root[1]].children = <<3, 2, 4>>
    /\ selection[1] = 2
    /\ dirty[1]

\* C17: move_up on a selected node that is the first child of its parent succeeds
\* and leaves the order of the parent's children as it was, however many there are.
MoveUpFirstKeepsOrder ==
    [][\A d \in SpecDocs :
          LET s == selection[d]
              p == nodes[s].parent
              t == nodes[p].children
          IN  s # NoNode /\ s # root[d] /\ p # NoNode /\ Index(t, s) = 1 /\ MoveUp(d) =>
                  last'.err = "ok" /\ nodes'[p].children = t]_vars

\* C18: move_down on a selected node that is the last child of its parent succeeds
\* and leaves the order of the parent's children as it was, however many there are.
MoveDownLastKeepsOrder ==
    [][\A d \in SpecDocs :
          LET s == selection[d]
              p == nodes[s].parent
              t == nodes[p].children
          IN  s # NoNode /\ s # root[d] /\ p # NoNode /\ Index(t, s) = Len(t)
                  /\ MoveDown(d) =>
                  last'.err = "ok" /\ nodes'[p].children = t]_vars

\* C18 happens: move_down was called with the last of the root's three children
\* selected, and the children are in the order in which they were added.
MoveDownLastWitness ==
    /\ last.op = "move_down"
    /\ last.err = "ok"
    /\ nodes[root[1]].children = <<2, 3, 4>>
    /\ selection[1] = 4

-----------------------------------------------------------------------------
(* SpecShared: the pasteboard *)

\* The subtree at n is what the record d describes, with the nodes of adopted
\* after the children that d describes.
DecodesWith(h, n, d, adopted) ==
    LET cs == Get(d, "children", <<>>)
    IN  /\ h[n].label = Get(d, "label", None)
        /\ h[n].value = Get(d, "value", None)
        /\ Len(h[n].children) = Len(cs) + Len(adopted)
        /\ \A k \in 1..Len(cs) : Decodes(h, h[n].children[k], cs[k])
        /\ \A k \in 1..Len(adopted) : h[n].children[Len(cs) + k] = adopted[k]

\* C19 as stated: the subtree at the root of what a successful paste inserted is,
\* in structure and fields, the subtree that was copied.
PasteEqualsCopy ==
    [][\A d \in Docs, w \in Locations :
          pasteboard # NoRecord /\ Paste(d, w) /\ last'.err = "ok" =>
              Decodes(nodes', NewNodeOf, pasteboard)]_vars

\* C19, amended: a successful copy puts on the pasteboard the record of the
\* selected subtree as it is then and changes no node, root, selection or dirty
\* flag; no other step, whatever it does to the copied or the pasted nodes,
\* changes the pasteboard; and a successful paste inserts a subtree that decodes
\* the pasteboard, to which Location.PARENT on a Tree that is not empty adds the
\* former selection as the last child of the pasted root.
CopyIsSnapshot ==
    [][/\ \A d \in Docs :
             selection[d] # NoNode /\ last'.op = "copy" /\ last'.doc = d /\ Copy(d) =>
                 /\ last'.err = "ok"
                 /\ Decodes(nodes, selection[d], pasteboard')
                 /\ "label" \in DOMAIN pasteboard'
                 /\ UNCHANGED <<nodes, used, root, selection, dirty>>
       /\ last'.op # "copy" \/ last'.err # "ok" => pasteboard' = pasteboard
       /\ \A d \in Docs, w \in Locations :
             pasteboard # NoRecord /\ last'.op = "paste" /\ last'.err = "ok"
                 /\ last'.doc = d /\ last'.where = w /\ Paste(d, w) =>
                 DecodesWith(nodes', NewNodeOf, pasteboard,
                             IF w = "PARENT" /\ root[d] # NoNode
                             THEN <<selection[d]>> ELSE <<>>)]_vars

\* C19 happens: only two nodes were ever constructed; the first was copied with
\* its texts, then lost its label to an edit, and the paste below it has put a
\* node there that carries the label that was copied.
CopyIsSnapshotWitness ==
    /\ last.op = "paste"
    /\ last.err = "ok"
    /\ used = 2
    /\ root[1] = 1
    /\ nodes[1].label = None
    /\ nodes[1].children = <<2>>
    /\ nodes[2].label = "a"
    /\ pasteboard.label = "a"

\* The nodes of a Tree whose root is r.
NodesOf(h, r) == IF r = NoNode THEN {} ELSE Subtree(h, r)

\* C20: what a successful paste inserts are Node objects that did not exist
\* before, as many as the pasteboard's record describes: none of them is a node
\* that was copied, pasted earlier or otherwise in use. Afterwards every Tree is
\* still a forest under a parentless root, no node is listed twice in any
\* children list, and the Trees share no node.
PasteIsFresh ==
    [][\A d \in Docs, w \in Locations :
          pasteboard # NoRecord /\ last'.op = "paste" /\ last'.err = "ok"
          /\ last'.doc = d /\ last'.where = w /\ Paste(d, w) =>
              LET adopted == IF w = "PARENT" /\ root[d] # NoNode
                             THEN Subtree(nodes, selection[d]) ELSE {}
                  inserted == Subtree(nodes', selection'[d]) \ adopted
              IN  /\ \A n \in inserted : n > used
                  /\ Cardinality(inserted) = RecSize(pasteboard)
                  /\ \A e \in Docs :
                        root'[e] # NoNode =>
                            /\ nodes'[root'[e]].parent = NoNode
                            /\ IsForest(nodes', Subtree(nodes', root'[e]))
                  /\ \A n \in Cells : Occurrences(nodes', Cells, n) <= 1
                  /\ \A e \in Docs : \A f \in Docs \ {e} :
                        NodesOf(nodes', root'[e]) \cap NodesOf(nodes', root'[f]) = {}]_vars

\* C20 happens: what was copied in Tree 1 has been pasted there and then pasted
\* into Tree 2, where it is the root: three nodes, each in one place.
PasteIsFreshWitness ==
    /\ last.op = "paste"
    /\ last.doc = 2
    /\ last.err = "ok"
    /\ root[1] = 1
    /\ nodes[1].children = <<2>>
    /\ root[2] = 3
    /\ pasteboard.children = <<>>
    /\ nodes[2].label = pasteboard.label
    /\ nodes[3].label = pasteboard.label

\* C21: paste with nothing on the pasteboard, whatever is selected and whether or
\* not the Tree is empty, raises an exception of a class of its own, neither the
\* SelectionError of a missing selection nor the TreemendousError of a refused
\* placement, and leaves the root, the nodes, the selection and dirty as they were.
EmptyPasteboardOwnError ==
    [][\A d \in SpecDocs, w \in Locations :
          pasteboard = NoRecord /\ Paste(d, w) =>
              /\ last'.err \notin {"ok", "SelectionError", "TreemendousError"}
              /\ DocumentsUnchanged]_vars

\* C22: the pasteboard is one slot for all Trees. A successful copy in any Tree
\* replaces what the slot holds, whichever Tree put it there, by the record of
\* that Tree's selected subtree; a paste in any Tree, successful or not, leaves
\* the slot as it is, and so does every step that is not a successful copy; and
\* what a successful paste inserts decodes the slot as it is then, that is what
\* the latest successful copy of any Tree put there.
SlotIsShared ==
    [][/\ \A d \in Docs :
             selection[d] # NoNode /\ last'.op = "copy" /\ last'.doc = d /\ Copy(d) =>
                 pasteboard' = to_dict(nodes, selection[d])
       /\ last'.op # "copy" \/ last'.err # "ok" => pasteboard' = pasteboard
       /\ \A d \in Docs, w \in Locations :
             last'.op = "paste" /\ last'.doc = d /\ last'.where = w /\ Paste(d, w) =>
                 /\ pasteboard' = pasteboard
                 /\ last'.err = "ok" =>
                       /\ nodes'[selection'[d]].label = pasteboard.label
                       /\ nodes'[selection'[d]].value = pasteboard.value
                       /\ \A k \in 1..Len(pasteboard.children) :
                             Decodes(nodes', nodes'[selection'[d]].children[k],
                                     pasteboard.children[k])]_vars

\* C22 happens: three nodes were constructed; the root of Tree 1 carries its
\* label, the root of Tree 2 has lost its label and was copied after that, and
\* the paste in Tree 1 has inserted a node without a label.
SlotIsSharedWitness ==
    /\ last.op = "paste"
    /\ last.doc = 1
    /\ last.err = "ok"
    /\ used = 3
    /\ root[1] = 1
    /\ root[2] = 2
    /\ nodes[1].label = "a"
    /\ nodes[2].label = None
    /\ nodes[3].label = None
    /\ nodes[3].parent = 1
    /\ pasteboard.label = None
-----------------------------------------------------------------------------
(* SpecFile: one Tree that is built, rearranged, annotated and saved *)

\* Bound: the number of Node objects constructed in one behaviour of SpecFile.
MaxSavedNodes == 3

\* The texts the methods are called with in SpecFile: every node is labelled,
\* so that an export finds nothing it cannot draw; tree.edit is called with no
\* argument (None, the default) or with an empty value; the notes are a text.
FileAddLabels == {"a"}
FileEditValues == {None, ""}
NotesTexts == {"n"}

\* A call that takes a path: the path it was given and, when it raised
\* IncompatibleFormatError, the message.
FileCall(op, d, path, e, m) ==
    [op |-> op, doc |-> d, where |-> "-", err |-> e, path |-> path, msg |-> m]

\* tree.save() and tree.save(path)
Save(d, path) ==
    LET r == Tree_save(TreeState(d), path)
    IN  Commit(d, r, FileCall("save", d, path, r.err, NoMessage))

\* tree.notes = new
SetNotes(d, new) ==
    LET r == Tree_notes(TreeState(d), new)
    IN  Commit(d, r, FileCall("notes", d, NoPath, r.err, NoMessage))

NextFile ==
    \/ \E d \in SpecDocs, p \in SavePaths \cup {NoPath} : Save(d, p)
    \/ \E d \in SpecDocs, n \in NotesTexts : SetNotes(d, n)
    \/ \E d \in SpecDocs, w \in Locations, l \in FileAddLabels :
          used < MaxSavedNodes /\ Add(d, w, l, "")
    \/ \E d \in SpecDocs, v \in FileEditValues : Edit(d, None, v)
    \/ \E d \in SpecDocs : Delete(d)
    \/ \E d \in SpecDocs : Copy(d)
    \/ \E d \in SpecDocs, w \in Locations :
          /\ pasteboard # NoRecord => used + RecSize(pasteboard) <= MaxSavedNodes
          /\ Paste(d, w)
    \/ \E d \in SpecDocs : MoveUp(d)
    \/ \E d \in SpecDocs : MoveDown(d)
    \/ \E d \in SpecDocs, n \in NodeIds : Select(d, n)

SpecFile == Init /\ [][NextFile]_vars

\* The path a call of tree.save writes to: the one given or else the last one.
SavedTo(d) == IF last'.path = NoPath THEN last_path[d] ELSE last'.path

\* The step is a call of tree.save that wrote the archive.
SavedArchive(d) ==
    /\ last'.op = "save"
    /\ last'.doc = d
    /\ last'.err = "ok"
    /\ ~EndsWith(SavedTo(d), ".gv")
    /\ ~EndsWith(SavedTo(d), ".png")

\* C23: every successful add, paste, delete, move_up, move_down, setting of the
\* notes and edit that gives a field leaves the Tree dirty; a dirty Tree stays
\* dirty until tree.save writes the archive, which clears dirty and makes the
\* path written the last path; a save to a .gv or .png path leaves dirty and the
\* last path as they were.
DirtyLifecycle ==
    [][\A d \in SpecDocs :
          /\ last'.doc = d /\ last'.err = "ok"
                /\ last'.op \in {"add", "paste", "delete", "move_up", "move_down", "notes"}
                => dirty'[d]
          /\ last'.op = "edit" /\ last'.err = "ok" /\ Edit(d, None, "") => dirty'[d]
          /\ dirty[d] /\ ~dirty'[d] => SavedArchive(d)
          /\ SavedArchive(d) => ~dirty'[d] /\ last_path'[d] = SavedTo(d)
          /\ last'.op = "save" /\ last'.doc = d
                /\ (EndsWith(last'.path, ".gv") \/ EndsWith(last'.path, ".png"))
                => dirty'[d] = dirty[d] /\ last_path'[d] = last_path[d]]_vars

\* C23 happens: the Tree was saved to the archive, annotated, and then exported
\* as an image: it is still dirty and its last path is still the archive's.
DirtyLifecycleWitness ==
    /\ last.op = "save"
    /\ last.err = "ok"
    /\ last.path = <<"a", ".png">>
    /\ disk[<<"a", ".png">>] = NotZip
    /\ disk[<<"a", Container>>] # Absent
    /\ last_path[1] = <<"a", Container>>
    /\ "notes" \in DOMAIN manifest[1]
    /\ "notes" \notin DOMAIN disk[<<"a", Container>>].manifest
    /\ dirty[1]

-----------------------------------------------------------------------------
(* SpecLoad: one Tree that is opened from the files there are, and saved *)

\* Bound: the number of Node objects constructed in one behaviour of SpecLoad.
MaxLoadNodes == 2

\* self.tree = Tree(path) on one of the files: a Tree that cannot be built
\* leaves the window's Tree as it is.
Load(d, path) ==
    LET r == Tree___init__(TreeState(d), path, disk[path])
    IN  Commit(d, r, FileCall("load", d, path, r.err, r.msg))

\* Whether the file holds a tree.json that from_dict would decode.
Decodable(file) ==
    /\ file \notin {Absent, NotZip}
    /\ "tree" \in DOMAIN file
    /\ file.tree # Unparsable

NextLoad ==
    \/ \E d \in SpecDocs, p \in Paths :
          /\ Decodable(disk[p]) => used + RecSize(disk[p].tree) <= MaxLoadNodes
          /\ Load(d, p)
    \/ \E d \in SpecDocs, p \in {<<"a", Container>>, NoPath} : Save(d, p)
    \/ \E d \in SpecDocs, w \in Locations, l \in FileAddLabels :
          used < MaxLoadNodes /\ Add(d, w, l, "")
    \/ \E d \in SpecDocs, n \in NodeIds : Select(d, n)

SpecLoad == Init /\ [][NextLoad]_vars

\* The step leaves the Trees, the heap, the pasteboard and the files alone.
NothingProduced == DocumentsUnchanged /\ UNCHANGED fileVars

\* The version a manifest states; one that states none counts as the running
\* version's.
TheirVersion(file) == Update(DEFAULT_MANIFEST, file.manifest).version

\* C24: opening an archive whose manifest states a major version above the
\* running one raises IncompatibleFormatError with the too-new message naming
\* <major>.0.0, whether or not tree.json is there, and builds no Tree; an
\* archive with both entries and an equal or lower major version opens,
\* whatever its minor and patch version, and the Tree carries its manifest.
VersionGate ==
    [][\A d \in SpecDocs, p \in Paths :
          last'.op = "load" /\ last'.path = p /\ Load(d, p)
              /\ disk[p] \notin {Absent, NotZip} /\ "manifest" \in DOMAIN disk[p] =>
              LET their == TheirVersion(disk[p])
              IN  /\ Major(their) > Major(CodecVersion) =>
                        /\ last'.err = "IncompatibleFormatError"
                        /\ last'.msg = TooNew(Major(their))
                        /\ NothingProduced
                  /\ Major(their) <= Major(CodecVersion) =>
                        /\ last'.msg # TooNew(Major(their))
                        /\ Decodable(disk[p]) =>
                              /\ last'.err = "ok"
                              /\ manifest'[d].version = their
                              /\ last_path'[d] = p
                              /\ ~dirty'[d]
                              /\ Decodes(nodes', root'[d], disk[p].tree)]_vars

\* C24 happens: an archive of a later minor version was opened, and then one
\* of a later major version that has no tree.json was refused as too new.
VersionGateWitness ==
    /\ last.op = "load"
    /\ last.path = <<"newcut", Container>>
    /\ last.err = "IncompatibleFormatError"
    /\ last.msg = TooNew(3)
    /\ last_path[1] = <<"minor", Container>>
    /\ manifest[1].version = <<1, 5, 2>>
    /\ root[1] # NoNode

\* The file is an archive that lacks manifest.json or tree.json, or is no
\* archive.
Incomplete(file) ==
    /\ file # Absent
    /\ \/ file = NotZip
       \/ "manifest" \notin DOMAIN file
       \/ "tree" \notin DOMAIN file

\* C25: opening a file that is no archive, or an archive that lacks
\* manifest.json or tree.json, raises IncompatibleFormatError and builds no
\* Tree: the window's Tree and the files are as before.
IncompleteRefused ==
    [][\A d \in SpecDocs, p \in Paths :
          last'.op = "load" /\ last'.path = p /\ Load(d, p) /\ Incomplete(disk[p]) =>
              /\ last'.err = "IncompatibleFormatError"
              /\ NothingProduced]_vars

\* C25 happens: a Tree was built and saved, and then an archive holding only
\* manifest.json was refused: the Tree is the one saved.
IncompleteRefusedWitness ==
    /\ last.op = "load"
    /\ last.path = <<"cut", Container>>
    /\ last.err = "IncompatibleFormatError"
    /\ last.msg = Damaged
    /\ last_path[1] = <<"a", Container>>
    /\ root[1] # NoNode
    /\ ~dirty[1]

\* C26: the manifest.json that tree.save writes states the running version,
\* also for a Tree opened from an archive an older version wrote.
SaveWritesCodecVersion ==
    [][\A d \in SpecDocs :
          SavedArchive(d) => disk'[SavedTo(d)].manifest.version = CodecVersion]_vars

-----------------------------------------------------------------------------
(* SpecParser: a GVParser that is reset, fed token by token, and closed *)

\* Bound: the number of tokens fed between two resets.
MaxTokens == 4

\* The tokens fed: every tag of TEX_MAP and a tag that is not in it, opened
\* and closed; a plain and a math tag opened with attributes; a text.
FedTags == DOMAIN TEX_MAP \cup {"x"}
Tokens ==
    {StartTag(t, FALSE) : t \in FedTags}
        \cup {StartTag(t, TRUE) : t \in {"b", "sup"}}
        \cup {EndTag(t) : t \in FedTags}
        \cup {Text("t")}

\* The tuple of the variables no parser step touches.
documentVars == <<nodes, used, treeVars, recVars, fileVars, shown, last>>

\* parser.feed: one more token reaches its handler; a handler that raises ends
\* the feeding.
Feed(tok) ==
    /\ phase = "open"
    /\ Len(fed) < MaxTokens
    /\ LET r == handle(parser, tok)
       IN  /\ parser' = r.p
           /\ phase' = IF r.err = "ok" THEN "open" ELSE "raised"
    /\ fed' = Append(fed, tok)
    /\ UNCHANGED documentVars

\* parser.close()
Close ==
    /\ phase = "open"
    /\ parser' = close(parser)
    /\ phase' = "closed"
    /\ UNCHANGED <<fed, documentVars>>

\* parser.reset()
Reset ==
    /\ parser' = Fresh
    /\ fed' = <<>>
    /\ phase' = "open"
    /\ UNCHANGED documentVars

NextParser ==
    \/ \E tok \in Tokens : Feed(tok)
    \/ Close
    \/ Reset

SpecParser == Init /\ [][NextParser]_vars

\* The token is a tag of TEX_MAP that opens without attributes, closes, or is
\* text.
Plain(tok) ==
    \/ tok.kind = "data"
    \/ tok.kind = "start" /\ tok.tag \in DOMAIN TEX_MAP /\ ~tok.attrs
    \/ tok.kind = "end" /\ tok.tag \in DOMAIN TEX_MAP

\* The tags of s that are left open when every text is dropped and every tag
\* that is closed right after it was opened is struck out, again and again;
\* <<"unmatched">> when a close tag meets no open tag of its name.
RECURSIVE OpenAfter(_)
OpenAfter(s) ==
    IF s = <<>> THEN <<>>
    ELSE LET before == OpenAfter(Front(s))
             tok == Last(s)
         IN  IF before = <<"unmatched">> \/ tok.kind = "data" THEN before
             ELSE IF tok.kind = "start" THEN Append(before, tok.tag)
             ELSE IF before # <<>> /\ Last(before) = tok.tag THEN Front(before)
             ELSE <<"unmatched">>

\* s holds only plain tokens and its tags are properly nested.
WellFormed(s) ==
    /\ \A k \in 1..Len(s) : Plain(s[k])
    /\ OpenAfter(s) = <<>>

\* The number of math tags opened less the number closed among the tokens s.
RECURSIVE MathDepth(_)
MathDepth(s) ==
    IF s = <<>> THEN 0
    ELSE MathDepth(Front(s))
            + (IF Last(s).tag \notin MATHMODE_REQUIRED THEN 0
               ELSE IF Last(s).kind = "start" THEN 1 ELSE -1)

\* The reference translation of plain tokens: an open tag is its TEX_MAP
\* string, a close tag a brace, text itself; a "$" goes before the math tag that
\* opens at depth 0 and after the one that closes to depth 0.
RECURSIVE Reference(_)
Reference(s) ==
    IF s = <<>> THEN ""
    ELSE LET tok == Last(s)
             math == tok.tag \in MATHMODE_REQUIRED
         IN  Reference(Front(s)) \o
             (IF tok.kind = "data" THEN tok.text
              ELSE IF tok.kind = "start"
                   THEN (IF math /\ MathDepth(Front(s)) = 0 THEN "$" ELSE "")
                            \o TEX_MAP[tok.tag]
                   ELSE "}" \o (IF math /\ MathDepth(s) = 0 THEN "$" ELSE ""))

\* C27: once it is closed after tokens that are plain and properly nested, the
\* parser is valid and its tex is the reference translation: math tags nested
\* in one another share one pair of "$".
WellFormedTranslated ==
    WellFormed(fed) /\ phase = "closed" =>
        /\ parser.valid
        /\ parser.tex = Reference(fed)

\* C27 happens: a sub inside a sup around a text was translated within one
\* pair of "$", and the parser is valid.
WellFormedTranslatedWitness ==
    /\ phase = "closed"
    /\ fed = <<StartTag("sup", FALSE), StartTag("sub", FALSE), EndTag("sub"), EndTag("sup")>>
    /\ parser.tex = "$^{_{}}$"
    /\ parser.valid

\* The token is a tag that is not in TEX_MAP, or an open tag with attributes.
Offending(tok) ==
    \/ tok.kind \in {"start", "end"} /\ tok.tag \notin DOMAIN TEX_MAP
    \/ tok.kind = "start" /\ tok.attrs

\* C28: from the token on that is a tag not in TEX_MAP or an open tag with
\* attributes, valid is false until the parser is reset, whatever is fed next.
InvalidNeverRecovers ==
    (\E k \in 1..Len(fed) : Offending(fed[k])) /\ phase # "raised" => ~parser.valid

\* C29: after tokens among which a close tag met an empty stack of open tags,
\* or another tag on top of it, the parser is not valid once closed.
MismatchedCloseInvalid ==
    (\E k \in 1..Len(fed) :
        /\ fed[k].kind = "end"
        /\ OpenAfter(SubSeq(fed, 1, k - 1)) # <<"unmatched">>
        /\ OpenAfter(SubSeq(fed, 1, k)) = <<"unmatched">>)
      /\ phase = "closed"
    => ~parser.valid

\* C30: no handler raises, whatever tokens are fed.
ParserNeverRaises == phase # "raised"

\* C35: after every token, as many tags are on _math_stack as math tags are
\* on _tag_stack; none when _tag_stack is empty.
MathDepthCountsOpenMathTags ==
    Len(parser.math_stack)
        = Cardinality({k \in 1..Len(parser.tag_stack) :
                          parser.tag_stack[k] \in MATHMODE_REQUIRED})

\* C36: the selection of a Tree is None or a node of the tree below its root;
\* an empty Tree has no selection.
SelectionIsLive ==
    \A d \in SpecDocs :
        selection[d] # NoNode =>
            /\ root[d] # NoNode
            /\ selection[d] \in Subtree(nodes, root[d])

\* C37: a call of add, paste, edit, delete, copy, move_up or move_down that
\* raises leaves the root, every node, the selection, dirty and the pasteboard
\* as they were before the call.
FailureAtomic ==
    [][last'.op \in {"add", "paste", "edit", "delete", "copy", "move_up", "move_down"}
          /\ last'.err # "ok" => DocumentsUnchanged]_vars

\* The nodes of Tree d in the heap h below the root r: none in an empty Tree.
TreeNodes(h, r) == IF r = NoNode THEN {} ELSE Subtree(h, r)

\* C39: a successful add makes the tree one node larger, a successful paste as
\* many nodes larger as the pasteboard holds, a successful delete as many nodes
\* smaller as the subtree of the selection holds, leaving none when the root is
\* deleted; edit, copy, move_up and move_down leave the set of nodes as it is.
NodeCountConserved ==
    [][\A d \in SpecDocs :
          last'.doc = d /\ last'.err = "ok" =>
              LET was == TreeNodes(nodes, root[d])
                  is == TreeNodes(nodes', root'[d])
              IN  /\ last'.op = "add" => Cardinality(is) = Cardinality(was) + 1
                  /\ last'.op = "paste" =>
                        Cardinality(is) = Cardinality(was) + RecSize(pasteboard)
                  /\ last'.op = "delete" =>
                        /\ Cardinality(is)
                              = Cardinality(was) - Cardinality(Subtree(nodes, selection[d]))
                        /\ selection[d] = root[d] => is = {}
                  /\ last'.op \in {"edit", "copy", "move_up", "move_down"} => is = was]_vars

\* C39 happens: a subtree of two nodes was pasted into a tree of two nodes,
\* which has four nodes now, and the pasteboard still holds the two.
NodeCountConservedWitness ==
    /\ last.op = "paste"
    /\ last.err = "ok"
    /\ RecSize(pasteboard) = 2
    /\ Cardinality(TreeNodes(nodes, root[1])) = 4

-----------------------------------------------------------------------------
(* SpecExport: a tree that is opened or built, displayed and exported *)

\* Bounds: the number of nodes of an opened tree whose texts are plain, and of
\* one whose labels and values are any of the texts.
MaxShapeNodes == 4
MaxMarkupNodes == 2

\* The labels of the trees with plain texts, the values of the trees with any
\* texts, and the labels tree.add is called with in SpecExport.
PlainLabels == {"", "a", "a2"}
MarkupValues == {None, "", "<b>a", "<b>a</b>"}
ExportAddLabels == {"", "a"}

\* The records of exactly n nodes with labels from L and values from V, and
\* the sequences of such records of n nodes in all.
RECURSIVE TreesOver(_, _, _), ForestsOver(_, _, _)
TreesOver(n, L, V) ==
    IF n = 0 THEN {}
    ELSE {[label |-> l, value |-> v, children |-> f] :
            l \in L, v \in V, f \in ForestsOver(n - 1, L, V)}
ForestsOver(n, L, V) ==
    IF n = 0 THEN {<<>>}
    ELSE UNION {{<<r>> \o f : r \in TreesOver(k, L, V), f \in ForestsOver(n - k, L, V)} :
                   k \in 1..n}

\* The tree.json records of the files opened in SpecExport; NoRecord where no
\* file is opened and the tree is built with tree.add.
ExportRecords ==
    {NoRecord} \cup UNION {TreesOver(n, PlainLabels, {None}) : n \in 1..MaxShapeNodes}
        \cup UNION {TreesOver(n, ExportTexts \cup {None}, MarkupValues) :
                       n \in 1..MaxMarkupNodes}

InitExport ==
    /\ nodes = [n \in Cells |-> NewNode(None, None)]
    /\ used = 0
    /\ root = [d \in Docs |-> NoNode]
    /\ selection = [d \in Docs |-> NoNode]
    /\ dirty = [d \in Docs |-> FALSE]
    /\ pasteboard = NoRecord
    /\ rec \in ExportRecords
    /\ built = <<NoNode, NoNode>>
    /\ InitFiles
    /\ InitParser
    /\ shown = NotShown
    /\ last = TreeCall("init", 1, "-", "ok")

\* The variables no rendering touches.
renderedVars == <<nodes, used, treeVars, recVars, fileVars, gvVars, last>>

\* str(node), for a node of the tree
ShowRepr(d, n) ==
    /\ root[d] # NoNode
    /\ n \in Subtree(nodes, root[d])
    /\ shown' = [op |-> "repr", doc |-> d, node |-> n, err |-> "ok",
                 out |-> Node___repr__(nodes, n)]
    /\ UNCHANGED renderedVars

\* root.to_qtree() on the root of a Tree: Node.to_qtree alone, without the
\* comment line Tree.qtree puts before it.
ShowQtree(d) ==
    /\ root[d] # NoNode
    /\ LET r == to_qtree(nodes, root[d])
       IN  shown' = [op |-> "qtree", doc |-> d, node |-> root[d], err |-> r.err,
                     out |-> r.out]
    /\ UNCHANGED renderedVars

\* root.to_graphviz() on the root of a Tree: Node.to_graphviz alone, the graph
\* as built, before Tree.graphviz or Tree.save renders or writes it.
ShowGraphviz(d) ==
    /\ root[d] # NoNode
    /\ LET r == to_graphviz(nodes, root[d])
       IN  shown' = [op |-> "graphviz", doc |-> d, node |-> root[d], err |-> r.err,
                     out |-> r.out]
    /\ UNCHANGED renderedVars

\* self.tree = Tree(path) on the file whose tree.json is rec
OpenRecord(d) ==
    /\ used + RecSize(rec) <= MaxShapeNodes
    /\ LET r == Tree___init__(TreeState(d), OpenedPath, Written(rec))
       IN  Commit(d, r, TreeCall("open", d, "-", r.err))

NextExport ==
    \/ \E d \in SpecDocs : rec # NoRecord /\ OpenRecord(d)
    \/ \E d \in SpecDocs, w \in Locations, l \in ExportAddLabels :
          rec = NoRecord /\ used < MaxShapeNodes /\ Add(d, w, l, "")
    \/ \E d \in SpecDocs, n \in NodeIds : ShowRepr(d, n)
    \/ \E d \in SpecDocs : ShowQtree(d)
    \/ \E d \in SpecDocs : ShowGraphviz(d)

SpecExport == InitExport /\ [][NextExport]_vars

\* str(node) was called on a node whose label is l and whose value is v.
Displayed(l, v) ==
    /\ shown.op = "repr"
    /\ nodes[shown.node].label = l
    /\ nodes[shown.node].value = v

\* The display form the statement of C34 describes, read by presence.
ByPresence(l, v) ==
    (IF l # None THEN l ELSE "UNLABELLED") \o (IF v # None THEN ": " \o v ELSE "")

\* The display form read by content: an empty text counts as an absent one.
ByContent(l, v) ==
    (IF l \notin {None, ""} THEN l ELSE "UNLABELLED")
        \o (IF v \notin {None, ""} THEN ": " \o v ELSE "")

\* C34, as stated: the display form is the label unless the label is None, then
\* it is UNLABELLED; ": " and the value follow unless the value is None.
DisplayFormByPresence ==
    [][\A d \in SpecDocs, n \in NodeIds :
          ShowRepr(d, n) =>
              shown'.out = ByPresence(nodes[n].label, nodes[n].value)]_vars

\* C34, amended: the display form is the label unless the label is None or the
\* empty text, then it is UNLABELLED; ": " and the value follow unless the value
\* is None or the empty text. A label that holds characters is never replaced.
DisplayFormByContent ==
    [][\A d \in SpecDocs, n \in NodeIds :
          ShowRepr(d, n) =>
              shown'.out = ByContent(nodes[n].label, nodes[n].value)]_vars

\* C34 happens: a node with an empty label and a value was displayed as the
\* placeholder and the value.
DisplayFormWitness ==
    /\ Displayed("", "<b>a")
    /\ shown.out = "UNLABELLED: <b>a"

\* The nodes of a tree in depth-first pre-order.
RECURSIVE Preorder(_, _), PreorderOfAll(_, _)
Preorder(h, n) == <<n>> \o PreorderOfAll(h, h[n].children)
PreorderOfAll(h, kids) ==
    IF kids = <<>> THEN <<>>
    ELSE Preorder(h, Head(kids)) \o PreorderOfAll(h, Tail(kids))

\* The positions of the pieces of one kind, in order.
RECURSIVE PositionsFrom(_, _, _)
PositionsFrom(out, part, i) ==
    IF i > Len(out) THEN <<>>
    ELSE (IF out[i].part = part THEN <<i>> ELSE <<>>) \o PositionsFrom(out, part, i + 1)
Positions(out, part) == PositionsFrom(out, part, 1)

\* The brackets of a typeset tree: the k-th label belongs to the k-th node in
\* pre-order and an opening bracket stands right before it exactly when the node
\* has children or is the root; a closing bracket stands on a line of its own,
\* never before its opening bracket; there are as many of either as there are
\* nodes with children, plus one for a childless root.
Bracketed(h, r, out) ==
    LET order == Preorder(h, r)
        labels == Positions(out, "label")
        opens == Positions(out, "open")
        closes == Positions(out, "close")
        parents == {n \in Subtree(h, r) : h[n].children # <<>>}
        expected == Cardinality(parents) + (IF h[r].children = <<>> THEN 1 ELSE 0)
    IN  /\ Len(labels) = Len(order)
        /\ \A k \in 1..Len(order) :
              out[labels[k] - 1].part = "open"
                  <=> (h[order[k]].children # <<>> \/ order[k] = r)
        /\ \A k \in 1..Len(opens) : out[opens[k] + 1].part = "label"
        /\ \A k \in 1..Len(closes) :
              /\ out[closes[k]].text = "]\n"
              /\ out[closes[k] - 1].part = "indent"
              /\ out[closes[k] - 2].part \in {"newline", "close"}
              /\ Cardinality({i \in 1..Len(opens) : opens[i] < closes[k]}) >= k
        /\ Len(opens) = expected
        /\ Len(closes) = expected

\* C31: in the typesetting export a node gets an opening bracket before its
\* label and a closing bracket on its own line exactly when it has children or
\* is the root, so the opening brackets, the closing brackets and the nodes
\* with children (plus one for a childless root) are equally many.
BracketStructure ==
    [][\A d \in SpecDocs :
          ShowQtree(d) /\ shown'.err = "ok" => Bracketed(nodes, root[d], shown'.out)]_vars

\* C31 happens: a root over one child over one grandchild was typeset with two
\* bracket pairs and the grandchild inline.
BracketStructureWitness ==
    /\ shown.op = "qtree"
    /\ shown.err = "ok"
    /\ Join(shown.out) = "\\Tree [.a\n  [.a2\n    a\n  ]\n]\n"

\* What the translator makes of one text on its own: a new translator is fed
\* the text and closed; its translation if it reports the text valid, else the
\* text as it is.
OnItsOwn(text) ==
    LET q == close(goahead(Fresh, Markup[text]).p)
    IN  IF q.valid THEN q.tex ELSE text

\* Every field of a typeset tree is rendered on its own: the k-th label is what
\* the translator makes of the label of the k-th node in pre-order, and a value
\* follows it, after a double backslash, exactly when the node has a value that
\* is not empty, as what the translator makes of that value.
FieldsOnTheirOwn(h, r, out) ==
    LET order == Preorder(h, r)
        labels == Positions(out, "label")
    IN  /\ Len(labels) = Len(order)
        /\ Len(Positions(out, "value"))
              = Cardinality({k \in 1..Len(order) : Truthy(h[order[k]].value)})
        /\ \A k \in 1..Len(order) :
              /\ out[labels[k]].text = OnItsOwn(h[order[k]].label)
              /\ Truthy(h[order[k]].value) =>
                    out[labels[k] + 1]
                        = Piece("value", "\\\\" \o OnItsOwn(h[order[k]].value))
              /\ ~Truthy(h[order[k]].value) => out[labels[k] + 1].part = "newline"

\* Every label of the tree is a text.
Labelled(h, r) == \A n \in Subtree(h, r) : h[n].label # None

\* C32: the typesetting export of a tree of labelled nodes renders every label
\* and every value on its own, as the translation when the translator reports
\* that text valid and as the unmodified text otherwise; a text with an unclosed
\* tag or with a close tag that has no open tag is written as it is, whatever
\* the other texts are.
FallbackPerField ==
    [][\A d \in SpecDocs :
          ShowQtree(d) /\ Labelled(nodes, root[d]) =>
              /\ shown'.err = "ok"
              /\ FieldsOnTheirOwn(nodes, root[d], shown'.out)]_vars

\* The identifier a text gets when the identifiers in taken are used: the
\* text, or the text followed by the first of 2, 3, ... that makes it new.
Suffixed(base, i) == IF i = 1 THEN base ELSE base \o ToString(i)
FirstFree(base, taken) ==
    Suffixed(base, CHOOSE i \in 1..(Cardinality(taken) + 1) :
                       /\ Suffixed(base, i) \notin taken
                       /\ \A j \in 1..(i - 1) : Suffixed(base, j) \in taken)

\* The identifier text of a label: what the translator keeps as plain data,
\* or the word node when that is empty.
IdentifierText(label) ==
    LET data == goahead(Fresh, Markup[label]).p.data
    IN  IF data = "" THEN "node" ELSE data

\* The statements of a diagram: the k-th node statement stands for the k-th
\* node in depth-first pre-order, with that node's label and with the first
\* free identifier made of that node's identifier text, given the identifiers
\* of the statements before it; no two node statements share an identifier;
\* the edges are exactly one per node below the root, from the identifier of
\* its parent to its own, written right after its node statement.
Diagrammed(h, r, out) ==
    LET order == Preorder(h, r)
        at == PositionsFrom([i \in 1..Len(out) |-> [part |-> out[i].stmt]], "node", 1)
        edges == {i \in 1..Len(out) : out[i].stmt = "edge"}
        IdOf(n) == out[at[CHOOSE k \in 1..Len(order) : order[k] = n]].id
    IN  /\ Len(at) = Len(order)
        /\ \A k \in 1..Len(order) :
              /\ out[at[k]].label
                    = node_label(h[order[k]].label, h[order[k]].value).text
              /\ out[at[k]].id
                    = FirstFree(IdentifierText(h[order[k]].label),
                                {out[at[j]].id : j \in 1..(k - 1)})
        /\ \A j, k \in 1..Len(at) : j # k => out[at[j]].id # out[at[k]].id
        /\ Cardinality(edges) = Len(order) - 1
        /\ \A k \in 1..Len(order) :
              LET own == {i \in edges : out[i].id = out[at[k]].id}
              IN  IF order[k] = r THEN own = {}
                  ELSE /\ own = {at[k] + 1}
                       /\ out[at[k] + 1].tail = IdOf(h[order[k]].parent)

\* C33: a diagram export that completes emits one node statement per node of the
\* tree, in depth-first pre-order (a grandchild before its parent's next
\* sibling, siblings in child order), each with its node's label and an
\* identifier made of its node's text, pairwise distinct, and one edge per node
\* below the root, from its parent's identifier to its own.
DiagramStructure ==
    [][\A d \in SpecDocs :
          ShowGraphviz(d) /\ shown'.err = "ok" =>
              Diagrammed(nodes, root[d], shown'.out)]_vars

\* C33 happens: a root labelled a over a child labelled a, which has a child
\* labelled a2, and a second child labelled empty was exported depth first: the
\* grandchild comes before the second child, with the identifiers a, a2, a22
\* and node.
DiagramStructureWitness ==
    /\ shown.op = "graphviz"
    /\ shown.err = "ok"
    /\ shown.out = <<NodeStatement("a", "<a>"),
                     NodeStatement("a2", "<a>"), EdgeStatement("a", "a2"),
                     NodeStatement("a22", "<a2>"), EdgeStatement("a2", "a22"),
                     NodeStatement("node", "<>"), EdgeStatement("a", "node")>>

\* C40: on a tree built with add alone, nodes of absent label included, the
\* typesetting export and the diagram export complete, with one label per node
\* and one node statement per node.
ExportsTotal ==
    [][\A d \in SpecDocs :
          /\ rec = NoRecord /\ ShowQtree(d) =>
                /\ shown'.err = "ok"
                /\ Len(Positions(shown'.out, "label"))
                      = Cardinality(Subtree(nodes, root[d]))
          /\ rec = NoRecord /\ ShowGraphviz(d) =>
                /\ shown'.err = "ok"
                /\ Cardinality({i \in 1..Len(shown'.out) : shown'.out[i].stmt = "node"})
                      = Cardinality(Subtree(nodes, root[d]))]_vars

-----------------------------------------------------------------------------
(* SpecClean: one Tree that is opened, changed in every way and saved *)

\* The files SpecClean opens: one with notes, one that is no archive, and the
\* one the Tree is saved to; and the paths it saves to: the archive, an export,
\* and no path.
CleanPaths == {<<"plain", Container>>, <<"junk", Container>>, <<"a", Container>>}
CleanSavePaths == {<<"a", Container>>, <<"a", ".gv">>, NoPath}

NextClean ==
    \/ \E d \in SpecDocs, p \in CleanPaths :
          /\ Decodable(disk[p]) => used + RecSize(disk[p].tree) <= MaxSavedNodes
          /\ Load(d, p)
    \/ \E d \in SpecDocs, p \in CleanSavePaths : Save(d, p)
    \/ \E d \in SpecDocs, n \in NotesTexts : SetNotes(d, n)
    \/ \E d \in SpecDocs, w \in Locations, l \in FileAddLabels :
          used < MaxSavedNodes /\ Add(d, w, l, "")
    \/ \E d \in SpecDocs, v \in FileEditValues : Edit(d, None, v)
    \/ \E d \in SpecDocs : Delete(d)
    \/ \E d \in SpecDocs : Copy(d)
    \/ \E d \in SpecDocs, w \in Locations :
          /\ pasteboard # NoRecord => used + RecSize(pasteboard) <= MaxSavedNodes
          /\ Paste(d, w)
    \/ \E d \in SpecDocs : MoveUp(d)
    \/ \E d \in SpecDocs : MoveDown(d)
    \/ \E d \in SpecDocs, n \in NodeIds : Select(d, n)

SpecClean == Init /\ [][NextClean]_vars

\* The tree of a Tree as a value: structure, child order, labels and values.
TreeOf(h, r) == IF r = NoNode THEN NoRecord ELSE to_dict(h, r)

\* The step is a tree.save that wrote the archive: the archive holds the tree
\* and the manifest the Tree has now.
SavedNow(d) ==
    /\ last'.op = "save" /\ last'.doc = d /\ last'.err = "ok"
    /\ \E p \in CleanSavePaths : Save(d, p)
    /\ ~EndsWith(last_path'[d], ".gv") /\ ~EndsWith(last_path'[d], ".png")
    /\ disk'[last_path'[d]]
          = [tree |-> TreeOf(nodes', root'[d]), manifest |-> manifest'[d]]

\* The step is a Tree(path) that opened an archive: the Tree holds the tree of
\* the archive and the manifest of the archive over the default one.
LoadedNow(d) ==
    /\ last'.op = "load" /\ last'.doc = d /\ last'.err = "ok"
    /\ \E p \in CleanPaths : Load(d, p)
    /\ TreeOf(nodes', root'[d]) = disk[last_path'[d]].tree
    /\ manifest'[d] = Update(DEFAULT_MANIFEST, disk[last_path'[d]].manifest)

\* C38: a Tree that is not dirty holds the tree and the manifest, notes
\* included, of its last successful save to an archive or load, or is the empty
\* Tree it was at first: it starts empty with the default manifest, and a step
\* that leaves it not dirty either is such a save or load or starts from a Tree
\* that is not dirty and changes neither its tree nor its manifest.
NoHiddenChange ==
    /\ \A d \in SpecDocs :
          ~dirty[d] => root[d] = NoNode /\ manifest[d] = DEFAULT_MANIFEST
    /\ [][\A d \in SpecDocs :
             ~dirty'[d] =>
                 \/ SavedNow(d)
                 \/ LoadedNow(d)
                 \/ /\ ~dirty[d]
                    /\ TreeOf(nodes', root'[d]) = TreeOf(nodes, root[d])
                    /\ manifest'[d] = manifest[d]]_vars

\* C38 happens: an annotated Tree was saved and, after a copy, is not dirty and
\* holds what the archive holds.
NoHiddenChangeWitness ==
    /\ ~dirty[1]
    /\ last.op = "copy"
    /\ last.err = "ok"
    /\ last_path[1] = <<"a", Container>>
    /\ "notes" \in DOMAIN manifest[1]
    /\ Cardinality(Subtree(nodes, root[1])) > 1
    /\ disk[<<"a", Container>>]
          = [tree |-> to_dict(nodes, root[1]), manifest |-> manifest[1]]

=============================================================================
